---- MODULE Spec2Model ----
(***************************************************************************)
(* Model of the probing engine of bug_bounty_tool.py:                      *)
(* AdvancedBugBountyTool.run_full_scan and the three thread-pool probing   *)
(* phases manual_xss_testing, manual_sqli_testing and manual_lfi_testing.  *)
(*                                                                         *)
(* Python strings are modelled as sequences of one-character strings, so   *)
(* that substring tests, re.sub, quote() and str.replace() are computed    *)
(* rather than assumed.  URLs are written without the constant             *)
(* "scheme://host" prefix.                                                 *)
(***************************************************************************)
EXTENDS Integers, Sequences, FiniteSets, TLC

(***************************************************************************)
(* Bounds of the model.                                                    *)
(***************************************************************************)
\* Largest number of URLs the collectors hand to results['urls'].
MaxUrls == 2
\* Largest number of those URLs that carry a query string, in a full scan.
MaxParamUrls == 1
\* Number of entries of self.lfi_payloads kept in the model (the code has 35).
LfiCatalogLen == 2

\* The longest catalog, and the most URLs, the unit counts are computed for
MaxCatalog == 7

MaxPoints == 2

\* The most URLs with an LFI keyword in a corpus handed to the LFI filter
MaxLfiUrls == 31

\* The most scans started through the web interface
MaxScans == 2

(***************************************************************************)
(* Program constants.                                                      *)
(***************************************************************************)
XSS_MAX_WORKERS == 10
XSS_URL_LIMIT == 50
XSS_PAYLOAD_LIMIT == 5
SQLI_MAX_WORKERS == 5
SQLI_URL_LIMIT == 20
SQLI_PAYLOAD_LIMIT == 4
SQLMAP_URL_LIMIT == 10
LFI_MAX_WORKERS == 10
LFI_URL_LIMIT == 30
\* Threshold of the time-based SQLi check: 5 seconds, in milliseconds.
TIME_THRESHOLD_MS == 5000

(***************************************************************************)
(* Python string operations.                                               *)
(***************************************************************************)
\* s[:n]
Take(s, n) == SubSeq(s, 1, IF n < Len(s) THEN n ELSE Len(s))

\* s[n:]
Drop(s, n) == IF n >= Len(s) THEN <<>> ELSE SubSeq(s, n + 1, Len(s))

\* s.startswith(p)
StartsWith(s, p) == Len(p) <= Len(s) /\ SubSeq(s, 1, Len(p)) = p

\* "sub in s"
Contains(s, sub) ==
    \E i \in 0..(Len(s) - Len(sub)) : SubSeq(s, i + 1, i + Len(sub)) = sub

\* s.find(c): the first index of the character c in s, 0 when it is absent.
Find(s, c) ==
    IF \E i \in 1..Len(s) : s[i] = c
    THEN CHOOSE i \in 1..Len(s) : s[i] = c /\ \A j \in 1..(i - 1) : s[j] # c
    ELSE 0

\* str.lower() on the characters the model uses.
LowerChar(c) ==
    CASE c = "M" -> "m"
      [] c = "S" -> "s"
      [] c = "Q" -> "q"
      [] c = "L" -> "l"
      [] c = "F" -> "f"
      [] c = "E" -> "e"
      [] c = "V" -> "v"
      [] c = "I" -> "i"
      [] c = "C" -> "c"
      [] c = "O" -> "o"
      [] OTHER -> c

Lower(s) == [i \in 1..Len(s) |-> LowerChar(s[i])]

RECURSIVE Flatten(_)
\* "".join(parts)
Flatten(parts) ==
    IF parts = <<>> THEN <<>> ELSE Head(parts) \o Flatten(Tail(parts))

\* str.replace(old, new) for a one-character old
ReplaceChar(s, old, new) ==
    Flatten([i \in 1..Len(s) |-> IF s[i] = old THEN new ELSE <<s[i]>>])

\* payload.replace('<', '&lt;').replace('>', '&gt;')
HtmlEscape(payload) ==
    ReplaceChar(ReplaceChar(payload, "<", <<"&", "l", "t", ";">>),
                ">", <<"&", "g", "t", ";">>)

\* urllib.parse.quote: the characters it leaves alone (letters, digits, _.-~ and /).
QuoteSafe ==
    {"a", "b", "c", "d", "e", "f", "g", "h", "i", "j", "k", "l", "m", "n", "o",
     "p", "q", "r", "s", "t", "u", "v", "w", "x", "y", "z",
     "F", "L", "M", "Q", "S",
     "0", "1", "2", "3", "4", "5", "6", "7", "8", "9",
     ".", "-", "_", "~", "/"}

QuoteChar(c) ==
    CASE c \in QuoteSafe -> <<c>>
      [] c = "<" -> <<"%", "3", "C">>
      [] c = ">" -> <<"%", "3", "E">>
      [] c = "\"" -> <<"%", "2", "2">>
      [] c = "'" -> <<"%", "2", "7">>
      [] c = "=" -> <<"%", "3", "D">>
      [] c = "&" -> <<"%", "2", "6">>
      [] c = ":" -> <<"%", "3", "A">>
      [] c = ";" -> <<"%", "3", "B">>
      [] c = "?" -> <<"%", "3", "F">>
      [] c = " " -> <<"%", "2", "0">>
      [] c = "%" -> <<"%", "2", "5">>
      [] OTHER -> <<"%", "?", "?">>

\* urllib.parse.quote(payload)
Quote(payload) == Flatten([i \in 1..Len(payload) |-> QuoteChar(payload[i])])

UnquoteTriple(t) ==
    CASE t = <<"%", "3", "C">> -> "<"
      [] t = <<"%", "3", "E">> -> ">"
      [] t = <<"%", "2", "2">> -> "\""
      [] t = <<"%", "2", "7">> -> "'"
      [] t = <<"%", "3", "D">> -> "="
      [] t = <<"%", "2", "6">> -> "&"
      [] t = <<"%", "3", "A">> -> ":"
      [] t = <<"%", "3", "B">> -> ";"
      [] t = <<"%", "3", "F">> -> "?"
      [] t = <<"%", "2", "0">> -> " "
      [] t = <<"%", "2", "5">> -> "%"
      [] OTHER -> "?"

RECURSIVE Unquote(_)
\* The percent-decoding a web server applies to a query value.
Unquote(s) ==
    IF s = <<>> THEN <<>>
    ELSE IF Head(s) = "%" /\ Len(s) >= 3
         THEN <<UnquoteTriple(SubSeq(s, 1, 3))>> \o Unquote(Drop(s, 3))
         ELSE <<Head(s)>> \o Unquote(Tail(s))

RECURSIVE SkipValue(_)
\* The rest of s from its first '&' on: what re's [^&]* leaves unmatched.
SkipValue(s) ==
    IF s = <<>> \/ Head(s) = "&" THEN s ELSE SkipValue(Tail(s))

\* re.sub with count=1: only the first "=value" becomes "=repl".
ReSubFirstValue(url, repl) ==
    IF Find(url, "=") = 0 THEN url
    ELSE Take(url, Find(url, "=")) \o repl \o SkipValue(Drop(url, Find(url, "=")))

RECURSIVE ReSubValues(_, _)
\* re.sub(r'=([^&]*)', '=' + repl, url): every "=value" becomes "=repl".
ReSubValues(url, repl) ==
    IF url = <<>> THEN <<>>
    ELSE IF Head(url) = "="
         THEN <<"=">> \o repl \o ReSubValues(SkipValue(Tail(url)), repl)
         ELSE <<Head(url)>> \o ReSubValues(Tail(url), repl)

RECURSIVE Split(_, _)
\* s.split(sep) for a one-character separator
Split(s, sep) ==
    IF Find(s, sep) = 0 THEN <<s>>
    ELSE <<Take(s, Find(s, sep) - 1)>> \o Split(Drop(s, Find(s, sep)), sep)

\* urlparse(url).query: what follows the first '?'
UrlQuery(url) == IF Find(url, "?") = 0 THEN <<>> ELSE Drop(url, Find(url, "?"))

\* f"{scheme}://{netloc}{path}": the URL without its query
UrlBase(url) == IF Find(url, "?") = 0 THEN url ELSE Take(url, Find(url, "?") - 1)

(***************************************************************************)
(* Payload catalogs (__init__).  The entries are short stand-ins that keep *)
(* the characters the checks look at; each list is longer than the slice   *)
(* the probing loops take from it.                                         *)
(***************************************************************************)
xss_payloads ==
    << <<"<", "s", ">">>,
       <<"\"", ">", "<", "s", ">">>,
       <<"<", "x", ">">>,
       <<"<", "y", ">">>,
       <<"<", "b", ">">>,
       <<"<", "i", ">">> >>

sqli_payloads ==
    << <<"'", "1">>,
       <<"'", "2">>,
       <<"'", "3">>,
       <<"a", "'">>,
       <<"a", "'", "5">> >>

LfiCatalog ==
    << <<".", ".", "/", "p">>,
       <<"/", "p">>,
       <<"/", "p", "%">>,
       <<"/", "s">> >>

lfi_payloads == Take(LfiCatalog, LfiCatalogLen)

(***************************************************************************)
(* The environment: the URLs the collectors find and the scanned server.   *)
(***************************************************************************)
UrlItem == <<"/", "i", "?", "i", "d", "=", "1">>

UrlView == <<"/", "v", "?", "f", "i", "l", "e", "=", "a">>

UrlAbout == <<"/", "a", "b">>

UrlUniverse == {UrlItem, UrlView, UrlAbout}

\* UrlItem with another value of its parameter
UrlItemTwo == <<"/", "i", "?", "i", "d", "=", "2">>

\* Every URL a scan of the model can probe.
ProbedUrls == UrlUniverse \cup {UrlItemTwo}

RECURSIVE ListsOf(_, _)
\* The duplicate-free lists of at most n members of set: the values list(all_urls)
\* can take (the iteration order of a Python set is arbitrary).
ListsOf(set, n) ==
    IF n = 0 THEN {<<>>}
    ELSE {<<>>} \cup {<<x>> \o l : x \in set, l \in ListsOf(set, n - 1)}

NoDuplicates(l) == \A i, j \in 1..Len(l) : i # j => l[i] # l[j]

\* The URL lists of the scans of Spec: list(all_urls) of a set, so without
\* duplicates.
Corpora ==
    {l \in ListsOf(UrlUniverse, MaxUrls) :
        /\ NoDuplicates(l)
        /\ Cardinality({n \in 1..Len(l) : Contains(l[n], <<"=">>)}) <= MaxParamUrls}

\* The URL list of the scans of SpecPool: enough parameterised URLs to keep every
\* thread of the SQLi pool busy.
PoolCorpus == <<UrlItem, UrlView>>

\* The URL list of the scans of SpecTwins: two URLs that differ only in the value
\* of their parameter.
TwinCorpus == <<UrlItem, UrlItemTwo>>

\* How the scanned server answers.
Behaviours ==
    {"clean", "reflect", "escape", "postraw", "sqlerr", "errbase", "slow",
     "passwd", "down", "flaky"}

BodyOk == <<"o", "k">>

BodyDbError == <<"M", "y", "S", "Q", "L">>

BodyPasswd == <<"r", "o", "o", "t", ":", "x", ":">>

\* The decoded parameter values of a query string.
QueryValues(query) ==
    LET parts == Split(query, "&")
    IN  Flatten([i \in 1..Len(parts) |->
                   IF Find(parts[i], "=") = 0 THEN <<>>
                   ELSE Unquote(Drop(parts[i], Find(parts[i], "=")))])

\* What the request carries: the decoded query values of a GET, the form values of
\* a POST.
Carried(req) ==
    IF req.method = "GET" THEN QueryValues(UrlQuery(req.url)) ELSE Flatten(req.data)

\* Whether the server's page prints the value it was sent: only values with an
\* "s" in them (the first two XSS payloads).
Echoed(v) == Contains(v, <<"s">>)

Page(v) == <<"<", "p", ">">> \o v

Answer(text, elapsed) == [err |-> FALSE, text |-> text, elapsed |-> elapsed]

Raised == [err |-> TRUE, text |-> <<>>, elapsed |-> 0]

\* requests.get / requests.post against the scanned server: the response, or
\* err = TRUE when the call raises (connection refused, timeout, DNS failure).
Respond(beh, req) ==
    LET v == Carried(req)
    IN  CASE beh = "down" -> Raised
          [] beh = "flaky" ->
                IF /\ req.method = "GET"
                   /\ \/ Contains(v, <<"\"">>)
                      \/ Contains(v, <<"'", "2">>)
                      \/ Contains(v, <<".", ".">>)
                THEN Raised
                ELSE IF Echoed(v) THEN Answer(Page(v), 200)
                ELSE IF Contains(v, <<"'">>) THEN Answer(BodyDbError, 200)
                ELSE IF Contains(v, <<"/", "p">>) THEN Answer(BodyPasswd, 200)
                ELSE Answer(BodyOk, 200)
          [] beh = "reflect" ->
                Answer(IF Echoed(v) THEN Page(v) ELSE BodyOk, 200)
          [] beh = "escape" ->
                Answer(IF Echoed(v) THEN Page(HtmlEscape(v)) ELSE BodyOk, 200)
          [] beh = "postraw" ->
                Answer(IF ~Echoed(v) THEN BodyOk
                       ELSE IF req.method = "GET" THEN Page(HtmlEscape(v))
                       ELSE Page(v), 200)
          [] beh = "sqlerr" ->
                Answer(IF Contains(v, <<"'", "1">>) \/ Contains(v, <<"'", "2">>)
                       THEN BodyDbError ELSE BodyOk,
                       IF Contains(v, <<"'", "2">>) THEN 5400 ELSE 200)
          [] beh = "errbase" -> Answer(BodyDbError, 200)
          [] beh = "slow" ->
                Answer(BodyOk, IF Contains(v, <<"'", "3">>) THEN 5400
                               ELSE IF Contains(v, <<"'", "2">>) THEN 5200
                               ELSE 200)
          [] beh = "passwd" ->
                Answer(IF Contains(v, <<"/", "p">>) THEN BodyPasswd ELSE BodyOk, 200)
          [] OTHER -> Answer(BodyOk, 200)

\* What filter_live_subdomains_advanced finds: one live host.
LiveHosts == <<"live">>

\* The answer of the scanned server to "requests.get(url, headers={'Origin':
\* origin})": its two CORS headers ('' when absent), or err = TRUE when the call
\* raises.
CorsHeaders(beh, origin) ==
    CASE beh = "down" -> [err |-> TRUE, acao |-> "", acac |-> ""]
      [] beh = "flaky" ->
            IF origin = "null" THEN [err |-> TRUE, acao |-> "", acac |-> ""]
            ELSE [err |-> FALSE, acao |-> origin, acac |-> ""]
      [] beh = "reflect" -> [err |-> FALSE, acao |-> origin, acac |-> "true"]
      [] beh = "postraw" -> [err |-> FALSE, acao |-> "*", acac |-> ""]
      [] OTHER -> [err |-> FALSE, acao |-> "", acac |-> ""]

GetRequest(url) == [method |-> "GET", url |-> url, data |-> <<>>]

PostRequest(url, data) == [method |-> "POST", url |-> url, data |-> data]

(***************************************************************************)
(* The probe units: the functions the pools run, as functions of the URL,  *)
(* the payload and the server.  A unit's value is its return value (a      *)
(* finding or None) with the requests it sent and how many of them raised. *)
(***************************************************************************)
None == [type |-> "None"]

UnitValue(result, sent, failed) ==
    [result |-> result, sent |-> sent, failed |-> failed]

\* [param.split('=') for param in query.split('&') if '=' in param]
QueryPairs(query) ==
    LET parts == Split(query, "&")
    IN  SelectSeq([i \in 1..Len(parts) |-> Split(parts[i], "=")],
                  LAMBDA pr : Len(pr) >= 2)

\* dict(pairs): the keys in first-insertion order, each with its last value.
DictOf(pairs) ==
    LET firsts == {i \in 1..Len(pairs) :
                     \A j \in 1..(i - 1) : pairs[j][1] # pairs[i][1]}
        lastOf(k) == CHOOSE i \in 1..Len(pairs) :
                        /\ pairs[i][1] = k
                        /\ \A j \in (i + 1)..Len(pairs) : pairs[j][1] # k
        keep == SelectSeq([i \in 1..Len(pairs) |-> i], LAMBDA i : i \in firsts)
    IN  [n \in 1..Len(keep) |->
           [name |-> pairs[keep[n]][1], value |-> pairs[lastOf(pairs[keep[n]][1])][2]]]

\* test_params = params.copy(); test_params[param] = payload
FormData(params, n, payload) ==
    [i \in 1..Len(params) |-> IF i = n THEN payload ELSE params[i].value]

\* The reflection test of the POST branch: "if payload in response.text"
XssPostReflected(text, payload) == Contains(text, payload)

\* The POST branch on one response: the finding, or None
XssPostFinding(base_url, param, payload, text) ==
    IF XssPostReflected(text, payload)
    THEN [url |-> base_url, parameter |-> param, payload |-> payload,
          type |-> "post_xss", method |-> "POST", risk |-> "High"]
    ELSE None

RECURSIVE XssPostLoop(_, _, _, _, _, _)
\* "for param in params:" of test_xss_payload, from the n-th parameter on
XssPostLoop(beh, base_url, params, payload, n, sent) ==
    IF n > Len(params) THEN UnitValue(None, sent, 0)
    ELSE LET response == Respond(beh, PostRequest(base_url,
                                                  FormData(params, n, payload)))
         IN  IF response.err THEN UnitValue(None, sent + 1, 1)
             ELSE IF XssPostFinding(base_url, params[n].name, payload,
                                    response.text) # None
                  THEN UnitValue(XssPostFinding(base_url, params[n].name, payload,
                                                response.text), sent + 1, 0)
                  ELSE XssPostLoop(beh, base_url, params, payload, n + 1, sent + 1)

\* "# Test POST parameter" of test_xss_payload
XssPostPart(beh, url, payload, sent) ==
    IF UrlQuery(url) = <<>> THEN UnitValue(None, sent, 0)
    ELSE IF \E pr \in {QueryPairs(UrlQuery(url))[i] :
                         i \in 1..Len(QueryPairs(UrlQuery(url)))} : Len(pr) # 2
         THEN UnitValue(None, sent, 0)   \* dict() raises ValueError: swallowed
         ELSE XssPostLoop(beh, UrlBase(url), DictOf(QueryPairs(UrlQuery(url))),
                          payload, 1, sent)

\* The reflection test of the GET branch
XssReflected(text, payload) ==
    ~Contains(text, HtmlEscape(payload)) /\ Contains(text, payload)

\* The GET branch on one response: the finding, or None
XssGetFinding(test_url, payload, text) ==
    IF XssReflected(text, payload)
    THEN [url |-> test_url, payload |-> payload, type |-> "reflected_xss",
          method |-> "GET", risk |-> "High"]
    ELSE None

\* test_xss_payload with the "try" around the GET request only: a GET that raises
\* no longer ends the unit, the POST part still runs.
test_xss_payload_narrow_try(beh, url, payload) ==
    IF Contains(url, <<"=">>)
    THEN LET test_url == ReSubValues(url, Quote(payload))
             response == Respond(beh, GetRequest(test_url))
             post == XssPostPart(beh, url, payload, 1)
         IN  IF response.err THEN [post EXCEPT !.failed = @ + 1]
             ELSE IF XssGetFinding(test_url, payload, response.text) # None
                  THEN UnitValue(XssGetFinding(test_url, payload, response.text), 1, 0)
                  ELSE post
    ELSE XssPostPart(beh, url, payload, 0)

test_xss_payload(beh, url, payload) ==
    IF Contains(url, <<"=">>)
    THEN LET test_url == ReSubValues(url, Quote(payload))
             response == Respond(beh, GetRequest(test_url))
         IN  IF response.err THEN UnitValue(None, 1, 1)
             ELSE IF XssGetFinding(test_url, payload, response.text) # None
                  THEN UnitValue(XssGetFinding(test_url, payload, response.text), 1, 0)
                  ELSE XssPostPart(beh, url, payload, 1)
    ELSE XssPostPart(beh, url, payload, 0)

sql_errors ==
    << <<"s", "q", "l", " ", "s", "y", "n", "t", "a", "x">>,
       <<"m", "y", "s", "q", "l">>,
       <<"o", "r", "a", "-">>,
       <<"p", "o", "s", "t", "g", "r", "e", "s", "q", "l">>,
       <<"s", "q", "l", "i", "t", "e">>,
       <<"s", "y", "b", "a", "s", "e">> >>

\* "error in test_content.lower() and error not in original_content.lower()"
\* The error check without the comparison against the baseline body.
SqlErrorHitNoBaseline(error, original, test) ==
    Contains(Lower(test.text), error)

SqlErrorHit(error, original, test) ==
    Contains(Lower(test.text), error) /\ ~Contains(Lower(original.text), error)

\* The time check with the threshold itself counted as a delay.
SqlTimeHitInclusive(original, test) ==
    test.elapsed >= original.elapsed + TIME_THRESHOLD_MS

\* "test_time > original_time + 5"
SqlTimeHit(original, test) == test.elapsed > original.elapsed + TIME_THRESHOLD_MS

\* The checks of test_sqli_payload once both responses are there.
SqliClassify(test_url, payload, original, test) ==
    IF \E n \in 1..Len(sql_errors) : SqlErrorHit(sql_errors[n], original, test)
    THEN LET n == CHOOSE k \in 1..Len(sql_errors) :
                     /\ SqlErrorHit(sql_errors[k], original, test)
                     /\ \A j \in 1..(k - 1) : ~SqlErrorHit(sql_errors[j], original, test)
         IN  [url |-> test_url, payload |-> payload, type |-> "error_based_sqli",
              evidence |-> sql_errors[n], risk |-> "High"]
    ELSE IF SqlTimeHit(original, test)
         THEN [url |-> test_url, payload |-> payload, type |-> "time_based_sqli",
               time_difference |-> test.elapsed - original.elapsed, risk |-> "High"]
         ELSE None

\* test_sqli_payload without a baseline request of its own.
SqliRequestsNoBaseline == <<"payload">>

\* test_sqli_payload with the payload request sent before the baseline request.
SqliRequestsPayloadFirst == <<"payload", "baseline">>

\* The requests of one test_sqli_payload call, in the order it sends them.
SqliRequests == <<"baseline", "payload">>

\* The request a SQLi unit sends as its n-th.
SqliRequest(url, payload, n) ==
    IF SqliRequests[n] = "baseline" THEN GetRequest(url)
    ELSE GetRequest(ReSubValues(url, Quote(payload)))

\* test_sqli_payload when none of its requests raised.
SqliResult(beh, url, payload) ==
    SqliClassify(ReSubValues(url, Quote(payload)), payload,
                 Respond(beh, GetRequest(url)),
                 Respond(beh, GetRequest(ReSubValues(url, Quote(payload)))))

lfi_indicators ==
    << <<"r", "o", "o", "t", ":", "x", ":">>,
       <<"d", "a", "e", "m", "o", "n", ":">>,
       <<"b", "i", "n", ":">>,
       <<"s", "y", "s", ":">>,
       <<"a", "d", "m", ":">>,
       <<"[", "b", "o", "o", "t", " ", "l", "o", "a", "d", "e", "r", "]">>,
       <<"u", "s", "e", "r", ".", "d", "a", "t">> >>

\* The loop over lfi_indicators with the evidence of the last indicator that
\* occurs instead of the first.
LfiClassifyLastHit(test_url, payload, text) ==
    LET hits == {n \in 1..Len(lfi_indicators) : Contains(text, lfi_indicators[n])}
    IN  IF hits # {}
        THEN [url |-> test_url, payload |-> payload, type |-> "local_file_inclusion",
              evidence |-> lfi_indicators[CHOOSE n \in hits : \A m \in hits : n >= m],
              risk |-> "High"]
        ELSE None

\* "for indicator in lfi_indicators: if indicator in response.text: return {...}"
LfiClassify(test_url, payload, text) ==
    LET hits == {n \in 1..Len(lfi_indicators) : Contains(text, lfi_indicators[n])}
    IN  IF hits # {}
        THEN [url |-> test_url, payload |-> payload, type |-> "local_file_inclusion",
              evidence |-> lfi_indicators[CHOOSE n \in hits : \A m \in hits : n <= m],
              risk |-> "High"]
        ELSE None

test_lfi_payload(beh, url, payload) ==
    LET test_url == ReSubValues(url, Quote(payload))
        response == Respond(beh, GetRequest(test_url))
    IN  IF response.err THEN UnitValue(None, 1, 1)
        ELSE UnitValue(LfiClassify(test_url, payload, response.text), 1, 0)

(***************************************************************************)
(* The checks of manual_cors_testing and manual_header_injection_testing   *)
(* on one response.                                                        *)
(***************************************************************************)
test_origins == <<"https://evil.com", "null", "https://attacker.com">>

\* The check with a wildcard that counts only when credentials are allowed.
CorsClassifyWildcardNeedsCredentials(url, origin, acao, acac) ==
    IF acao = origin \/ (acao = "*" /\ acac = "true")
    THEN [url |-> url, origin |-> origin, acao |-> acao, acac |-> acac,
          type |-> "cors_misconfiguration",
          risk |-> IF acac = "true" THEN "High" ELSE "Medium"]
    ELSE None

\* "if acao == origin or acao == '*': cors_issues.append({...})"
CorsClassify(url, origin, acao, acac) ==
    IF acao = origin \/ acao = "*"
    THEN [url |-> url, origin |-> origin, acao |-> acao, acac |-> acac,
          type |-> "cors_misconfiguration",
          risk |-> IF acac = "true" THEN "High" ELSE "Medium"]
    ELSE None

EvilCom == <<"e", "v", "i", "l", ".", "c", "o", "m">>

Loopback == <<"1", "2", "7", ".", "0", ".", "0", ".", "1">>

\* test_headers.items(), in insertion order
test_headers ==
    << [header |-> "X-Forwarded-For", value |-> EvilCom],
       [header |-> "X-Forwarded-Host", value |-> EvilCom],
       [header |-> "X-Originating-IP", value |-> Loopback],
       [header |-> "X-Remote-IP", value |-> Loopback],
       [header |-> "X-Remote-Addr", value |-> Loopback],
       [header |-> "X-Real-IP", value |-> EvilCom],
       [header |-> "Host", value |-> EvilCom] >>

\* The check with the value looked for whatever its case.
HeaderClassifyAnyCase(url, header, value, text) ==
    IF Contains(Lower(text), Lower(value))
    THEN [url |-> url, header |-> header, payload |-> value,
          type |-> "header_injection", risk |-> "Medium"]
    ELSE None

\* "if value in response.text: header_vulnerabilities.append({...})"
HeaderClassify(url, header, value, text) ==
    IF Contains(text, value)
    THEN [url |-> url, header |-> header, payload |-> value,
          type |-> "header_injection", risk |-> "Medium"]
    ELSE None

(***************************************************************************)
(* The corpus of each probing phase and its list of units, in the order    *)
(* the nested loops submit them.                                           *)
(***************************************************************************)
\* [url for url in self.results['urls'] if '=' in url]
UrlsWithParams(urls) == SelectSeq(urls, LAMBDA u : Contains(u, <<"=">>))

lfi_keywords ==
    << <<"f", "i", "l", "e">>, <<"p", "a", "g", "e">>,
       <<"i", "n", "c", "l", "u", "d", "e">>, <<"p", "a", "t", "h">>,
       <<"d", "o", "c">> >>

\* A filter that asks for a keyword only, not for '='.
LfiUrlsKeywordOnly(urls) ==
    SelectSeq(urls, LAMBDA u :
        \E n \in 1..Len(lfi_keywords) : Contains(Lower(u), lfi_keywords[n]))

\* The filter of manual_lfi_testing
LfiUrls(urls) ==
    SelectSeq(urls, LAMBDA u :
        /\ Contains(u, <<"=">>)
        /\ \E n \in 1..Len(lfi_keywords) : Contains(Lower(u), lfi_keywords[n]))

Engines == {"xss", "sqli", "lfi"}

\* max_workers of the phase's ThreadPoolExecutor
MaxWorkers(e) ==
    CASE e = "xss" -> XSS_MAX_WORKERS
      [] e = "sqli" -> SQLI_MAX_WORKERS
      [] OTHER -> LFI_MAX_WORKERS

\* A phase that takes every URL of the corpus, filtering nothing.
PhaseFilterNone(e, urls) == urls

\* The list urls_with_params of a phase, from self.results['urls']
PhaseFilter(e, urls) == IF e = "lfi" THEN LfiUrls(urls) ELSE UrlsWithParams(urls)

\* The URLs a phase probes: urls_with_params[:limit]
PhaseUrls(e, with_params) ==
    CASE e = "xss" -> Take(with_params, XSS_URL_LIMIT)
      [] e = "sqli" -> Take(with_params, SQLI_URL_LIMIT)
      [] OTHER -> Take(with_params, LFI_URL_LIMIT)

\* The payload lists without their slices: every payload of the catalog is tried.
PhasePayloadsUnsliced(e) ==
    CASE e = "xss" -> xss_payloads
      [] e = "sqli" -> sqli_payloads
      [] OTHER -> lfi_payloads

\* The payload catalog of a phase
Catalog(e) ==
    CASE e = "xss" -> xss_payloads
      [] e = "sqli" -> sqli_payloads
      [] OTHER -> lfi_payloads

\* A phase that tries every payload of the catalog it is given.
PayloadsTriedWholeCatalog(e, catalog) == catalog

\* The part of a catalog a phase tries on every URL: "self.xss_payloads[:5]",
\* "self.sqli_payloads[:4]", "self.lfi_payloads"
PayloadsTried(e, catalog) ==
    CASE e = "xss" -> Take(catalog, XSS_PAYLOAD_LIMIT)
      [] e = "sqli" -> Take(catalog, SQLI_PAYLOAD_LIMIT)
      [] OTHER -> catalog

\* The payloads a phase tries on every URL
PhasePayloads(e) == PayloadsTried(e, Catalog(e))

\* "for url in ...: for payload in ...: executor.submit(...)": the n-th unit
UnitAt(e, with_params, n) ==
    LET np == Len(PhasePayloads(e))
    IN  [url |-> PhaseUrls(e, with_params)[((n - 1) \div np) + 1],
         payload |-> PhasePayloads(e)[((n - 1) % np) + 1]]

\* The position, in the phase's URL list, of the URL of the n-th unit.
UnitUrlIndex(e, n) == ((n - 1) \div Len(PhasePayloads(e))) + 1

UnitCount(e, with_params) == Len(PhaseUrls(e, with_params)) * Len(PhasePayloads(e))

(***************************************************************************)
(* State.                                                                  *)
(***************************************************************************)
VARIABLES
    pc,          \* where the thread that runs run_full_scan is
    results,     \* self.results
    futures,     \* the futures of the running phase's executor, in submission order
    local,       \* the list the running phase collects into (xss_vulnerabilities, ...)
    urls_with_params,  \* the local list of that name of the running manual_*_testing
    net,         \* the requests sent so far
    discovered,  \* what the URL collectors find (environment)
    target,      \* how the scanned server behaves (environment)
    dropped,     \* the list that was being collected when KeyboardInterrupt arrived
    probe        \* the last response handed to a check on its own, and its verdict

vars == <<pc, results, futures, local, urls_with_params, net, discovered, target, dropped,
         probe>>

\* No response has been handed to a check on its own.
NoProbe == [kind |-> "none"]

PoolPcs == {"xss_pool", "sqli_pool", "lfi_pool"}

\* The three "return self.results" of run_full_scan: at the end of the try
\* block, in "except KeyboardInterrupt" and in "except Exception".
Returned == {"returned", "returned_interrupted", "returned_failed"}

\* The engine whose executor is open at a position of the main thread.
EngineAt(p) ==
    CASE p = "xss_pool" -> "xss"
      [] p = "sqli_pool" -> "sqli"
      [] OTHER -> "lfi"

\* The key of self.results a phase assigns its list to.
ResultKey(e) ==
    CASE e = "xss" -> "xss_vulnerabilities"
      [] e = "sqli" -> "sql_injection"
      [] OTHER -> "lfi_vulnerabilities"

\* The position after a phase has assigned its list.
DonePc(e) ==
    CASE e = "xss" -> "xss_done"
      [] e = "sqli" -> "sqli_done"
      [] OTHER -> "lfi_done"

Running == {i \in 1..Len(futures) : futures[i].state = "running"}

Pending == {i \in 1..Len(futures) : futures[i].state = "pending"}

Finished == {i \in 1..Len(futures) : futures[i].state \in {"done", "yielded"}}

\* self.results as __init__ builds it
InitResults ==
    [target |-> "target_domain",
     timestamp |-> "now",
     subdomains |-> <<>>,
     live_subdomains |-> <<>>,
     urls |-> <<>>,
     sensitive_files |-> <<>>,
     vulnerabilities |-> <<>>,
     open_ports |-> <<>>,
     js_files |-> <<>>,
     parameters |-> <<>>,
     cors_issues |-> <<>>,
     xss_vulnerabilities |-> <<>>,
     lfi_vulnerabilities |-> <<>>,
     sql_injection |-> <<>>,
     subdomain_takeover |-> <<>>,
     aws_s3_buckets |-> <<>>,
     api_keys |-> <<>>,
     wordpress_scan |-> <<>>,
     directory_bruteforce |-> <<>>,
     technology_stack |-> <<>>,
     dns_records |-> <<>>,
     ssl_info |-> <<>>,
     wayback_urls |-> <<>>,
     github_repos |-> <<>>,
     email_addresses |-> <<>>,
     phone_numbers |-> <<>>,
     social_media |-> <<>>,
     status |-> "initialized"]

Init ==
    /\ pc = "start"
    /\ results = InitResults
    /\ futures = <<>>
    /\ local = <<>>
    /\ urls_with_params = <<>>
    /\ net = [sent |-> 0, failed |-> 0, baseline_sent |-> <<>>,
              baseline_done |-> <<>>, payload_sent |-> <<>>]
    /\ discovered \in Corpora
    /\ target \in Behaviours
    /\ dropped = [engine |-> "none", list |-> <<>>]
    /\ probe = NoProbe

(***************************************************************************)
(* run_full_scan: the phases that only call external tools.                *)
(***************************************************************************)
Enter(from, to, status) ==
    /\ pc = from
    /\ pc' = to
    /\ results' = [results EXCEPT !.status = status]
    /\ UNCHANGED <<futures, local, urls_with_params, net, discovered, target, dropped, probe>>

Goto(from, to) ==
    /\ pc = from
    /\ pc' = to
    /\ UNCHANGED <<results, futures, local, urls_with_params, net, discovered, target, dropped, probe>>

subdomain_enumeration_advanced == Enter("start", "subdomain_enum", "subdomain_enum")

filter_live_subdomains_advanced ==
    /\ pc = "subdomain_enum"
    /\ pc' = "live_filtering"
    /\ results' = [results EXCEPT !.status = "live_filtering",
                                  !.live_subdomains = LiveHosts]
    /\ UNCHANGED <<futures, local, urls_with_params, net, discovered, target, dropped, probe>>

comprehensive_url_collection ==
    Enter("live_filtering", "url_collection", "url_collection")

\* The URLs collected into a list instead of a set: a URL found by two
\* collectors is kept twice.
SaveUrlsAsList ==
    /\ pc = "url_collection"
    /\ pc' = "urls_saved"
    /\ results' = [results EXCEPT !.urls = discovered \o discovered]
    /\ UNCHANGED <<futures, local, urls_with_params, net, discovered, target, dropped, probe>>

\* self.results['urls'] = list(all_urls)
SaveUrls ==
    /\ pc = "url_collection"
    /\ pc' = "urls_saved"
    /\ results' = [results EXCEPT !.urls = discovered]
    /\ UNCHANGED <<futures, local, urls_with_params, net, discovered, target, dropped, probe>>

comprehensive_sensitive_file_detection ==
    Enter("urls_saved", "sensitive_files", "sensitive_files")

comprehensive_vulnerability_scanning ==
    Enter("sensitive_files", "vulnerability_scan", "vulnerability_scan")

(***************************************************************************)
(* The probing phases.                                                     *)
(***************************************************************************)
\* xss_comprehensive_testing up to the call of manual_xss_testing
xss_comprehensive_testing ==
    /\ pc = "vulnerability_scan"
    /\ pc' = "xss_pool"
    /\ local' = <<>>
    /\ urls_with_params' = PhaseFilter("xss", results.urls)
    /\ UNCHANGED <<results, futures, net, discovered, target, dropped, probe>>

\* What sqlmap prints for a URL (external tool): "vulnerable" for an injectable server.
SqlmapVulnerable(beh, url) == beh \in {"sqlerr", "slow"}

\* "# Method 1: SQLMap" of sql_injection_comprehensive
SqlmapFindings(beh, urls) ==
    LET tried == Take(UrlsWithParams(urls), SQLMAP_URL_LIMIT)
        hits == SelectSeq(tried, LAMBDA u : SqlmapVulnerable(beh, u))
    IN  [n \in 1..Len(hits) |->
           [url |-> hits[n], tool |-> "sqlmap", type |-> "sql_injection",
            risk |-> "Critical"]]

\* sql_injection_comprehensive up to the call of manual_sqli_testing
sql_injection_comprehensive ==
    /\ pc = "xss_done"
    /\ pc' = "sqli_pool"
    /\ local' = SqlmapFindings(target, results.urls)
    /\ urls_with_params' = PhaseFilter("sqli", results.urls)
    /\ net' = LET zero == [n \in 1..Len(PhaseUrls("sqli", urls_with_params')) |-> 0]
              IN  [net EXCEPT !.baseline_sent = zero, !.baseline_done = zero,
                              !.payload_sent = zero]
    /\ UNCHANGED <<results, futures, discovered, target, dropped, probe>>

\* lfi_comprehensive_testing up to the call of manual_lfi_testing
lfi_comprehensive_testing ==
    /\ pc = "sqli_done"
    /\ pc' = "lfi_pool"
    /\ local' = <<>>
    /\ urls_with_params' = PhaseFilter("lfi", results.urls)
    /\ UNCHANGED <<results, futures, net, discovered, target, dropped, probe>>

\* futures.append(executor.submit(test, url, payload)): never blocks, the
\* executor's work queue is unbounded.  The n-th future is the one of the n-th unit,
\* UnitAt(engine, urls, n).
ExecutorSubmit ==
    /\ pc \in PoolPcs
    /\ Len(futures) < UnitCount(EngineAt(pc), urls_with_params)
    /\ futures' = Append(futures, [state |-> "pending", stage |-> 0, result |-> None])
    /\ UNCHANGED <<pc, results, local, urls_with_params, net, discovered, target, dropped, probe>>

\* The pool threads live while the "with" block is open, and through the
\* shutdown(wait=True) of its __exit__.
PoolOpen == pc \in PoolPcs \cup {"shutdown_wait"}

\* A pool that starts one thread more than max_workers.
WorkerFreeOneMore(e) == Cardinality(Running) <= MaxWorkers(e)

\* A worker may take a unit when fewer than max_workers units are running.
WorkerFree(e) == Cardinality(Running) < MaxWorkers(e)

\* The engine of the open pool (also while an exception unwinds through it).
PoolEngine == IF pc \in PoolPcs THEN EngineAt(pc) ELSE dropped.engine

\* The arguments of the call the i-th future of the open pool stands for.
UnitOf(i) == UnitAt(PoolEngine, urls_with_params, i)

Bump(count, u) == [count EXCEPT ![u] = @ + 1]

\* The request counters after a SQLi unit has sent its n-th request for the u-th URL.
SqliSent(n, u, counters) ==
    IF SqliRequests[n] = "baseline"
    THEN [counters EXCEPT !.sent = @ + 1, !.baseline_sent = Bump(@, u)]
    ELSE [counters EXCEPT !.sent = @ + 1, !.payload_sent = Bump(@, u)]

\* A pool thread takes the oldest queued unit and starts it.  A SQLi unit sends
\* its first request at once.
WorkerStart ==
    /\ PoolOpen
    /\ Pending # {}
    /\ WorkerFree(PoolEngine)
    /\ LET i == CHOOSE k \in Pending : \A j \in Pending : k <= j
       IN  /\ futures' = [futures EXCEPT ![i].state = "running"]
           /\ net' = IF PoolEngine = "sqli"
                     THEN SqliSent(1, UnitUrlIndex("sqli", i), net)
                     ELSE net
    /\ UNCHANGED <<pc, results, local, urls_with_params, discovered, target, dropped, probe>>

\* The position of a payload in the list its phase takes it from.
PayloadIndex(e, payload) ==
    CHOOSE n \in 1..Len(PhasePayloads(e)) : PhasePayloads(e)[n] = payload

\* What a SQLi unit meets: whether its n-th request raises, and the value it
\* returns when none does.  Tabulated once for the URLs and payloads of the model.
SqliTable ==
    [beh \in Behaviours |->
       [url \in ProbedUrls |->
          [k \in 1..Len(PhasePayloads("sqli")) |->
             [raises |-> [n \in 1..Len(SqliRequests) |->
                            Respond(beh, SqliRequest(url, PhasePayloads("sqli")[k], n)).err],
              result |-> SqliResult(beh, url, PhasePayloads("sqli")[k])]]]]

\* A request of a running SQLi unit returns or raises.
SqliRequestDone ==
    /\ PoolOpen
    /\ PoolEngine = "sqli"
    /\ \E i \in Running :
         LET u == UnitOf(i)
             n == futures[i].stage + 1
             met == SqliTable[target][u.url][PayloadIndex("sqli", u.payload)]
             counted == IF SqliRequests[n] = "baseline"
                        THEN [net EXCEPT !.baseline_done = Bump(@, UnitUrlIndex("sqli", i))]
                        ELSE net
         IN  IF met.raises[n]
             THEN /\ futures' = [futures EXCEPT ![i].state = "done"]
                  /\ net' = [counted EXCEPT !.failed = @ + 1]
             ELSE IF n = Len(SqliRequests)
                  THEN /\ futures' = [futures EXCEPT
                                        ![i].state = "done",
                                        ![i].result = met.result]
                       /\ net' = counted
                  ELSE /\ futures' = [futures EXCEPT ![i].stage = n]
                       /\ net' = SqliSent(n + 1, UnitUrlIndex("sqli", i), counted)
    /\ UNCHANGED <<pc, results, local, urls_with_params, discovered, target, dropped, probe>>

\* The function an XSS or LFI pool runs.
RunUnit(e, beh, unit) ==
    IF e = "xss" THEN test_xss_payload(beh, unit.url, unit.payload)
    ELSE test_lfi_payload(beh, unit.url, unit.payload)

\* RunUnit, tabulated once for the URLs and payloads of the model.
RunUnitTable ==
    [e \in {"xss", "lfi"} |->
       [beh \in Behaviours |->
          [url \in ProbedUrls |->
             [n \in 1..Len(PhasePayloads(e)) |->
                RunUnit(e, beh, [url |-> url, payload |-> PhasePayloads(e)[n]])]]]]

\* A unit function that appends its finding to the phase's list itself, in the
\* pool thread.
WorkerFinishAppends ==
    /\ PoolOpen
    /\ PoolEngine # "sqli"
    /\ \E i \in Running :
         LET v == RunUnitTable[PoolEngine][target][UnitOf(i).url][
                      PayloadIndex(PoolEngine, UnitOf(i).payload)]
         IN  /\ futures' = [futures EXCEPT ![i].state = "done", ![i].result = v.result]
             /\ net' = [net EXCEPT !.sent = @ + v.sent, !.failed = @ + v.failed]
             /\ local' = IF v.result # None THEN Append(local, v.result) ELSE local
    /\ UNCHANGED <<pc, results, urls_with_params, discovered, target, dropped, probe>>

\* Requests without a timeout: a unit whose request gets no answer never returns.
WorkerFinishNoTimeout ==
    /\ PoolOpen
    /\ PoolEngine # "sqli"
    /\ \E i \in Running :
         LET v == RunUnitTable[PoolEngine][target][UnitOf(i).url][
                      PayloadIndex(PoolEngine, UnitOf(i).payload)]
         IN  /\ v.failed = 0
             /\ futures' = [futures EXCEPT ![i].state = "done", ![i].result = v.result]
             /\ net' = [net EXCEPT !.sent = @ + v.sent, !.failed = @ + v.failed]
    /\ UNCHANGED <<pc, results, local, urls_with_params, discovered, target, dropped, probe>>

\* A running XSS or LFI unit returns.
WorkerFinish ==
    /\ PoolOpen
    /\ PoolEngine # "sqli"
    /\ \E i \in Running :
         LET v == RunUnitTable[PoolEngine][target][UnitOf(i).url][
                      PayloadIndex(PoolEngine, UnitOf(i).payload)]
         IN  /\ futures' = [futures EXCEPT ![i].state = "done", ![i].result = v.result]
             /\ net' = [net EXCEPT !.sent = @ + v.sent, !.failed = @ + v.failed]
    /\ UNCHANGED <<pc, results, local, urls_with_params, discovered, target, dropped, probe>>

\* The key the specification deduplicates findings by.
DedupKey(f) ==
    <<f.url, IF "parameter" \in DOMAIN f THEN f.parameter ELSE <<>>, f.type>>

\* The collecting loop with a guard that skips a finding whose key is in the list.
AsCompletedDedup ==
    /\ pc \in PoolPcs
    /\ Len(futures) = UnitCount(EngineAt(pc), urls_with_params)
    /\ \E i \in 1..Len(futures) :
         /\ futures[i].state = "done"
         /\ futures' = [futures EXCEPT ![i].state = "yielded"]
         /\ local' = IF /\ futures[i].result # None
                        /\ \A n \in 1..Len(local) :
                              DedupKey(local[n]) # DedupKey(futures[i].result)
                     THEN Append(local, futures[i].result)
                     ELSE local
    /\ UNCHANGED <<pc, results, urls_with_params, net, discovered, target, dropped, probe>>

\* The collecting loop appending to the list of self.results itself instead of
\* the phase's own list.
AsCompletedShared ==
    /\ pc \in PoolPcs
    /\ Len(futures) = UnitCount(EngineAt(pc), urls_with_params)
    /\ \E i \in 1..Len(futures) :
         /\ futures[i].state = "done"
         /\ futures' = [futures EXCEPT ![i].state = "yielded"]
         /\ local' = IF futures[i].result # None
                     THEN Append(local, futures[i].result)
                     ELSE local
         /\ results' = IF futures[i].result # None
                       THEN [results EXCEPT ![ResultKey(EngineAt(pc))] =
                                Append(@, futures[i].result)]
                       ELSE results
    /\ UNCHANGED <<pc, urls_with_params, net, discovered, target, dropped, probe>>

\* "for future in as_completed(futures): result = future.result();
\*  if result: list.append(result)", run by the main thread once every unit has
\* been submitted.
AsCompleted ==
    /\ pc \in PoolPcs
    /\ Len(futures) = UnitCount(EngineAt(pc), urls_with_params)
    /\ \E i \in 1..Len(futures) :
         /\ futures[i].state = "done"
         /\ futures' = [futures EXCEPT ![i].state = "yielded"]
         /\ local' = IF futures[i].result # None
                     THEN Append(local, futures[i].result)
                     ELSE local
    /\ UNCHANGED <<pc, results, urls_with_params, net, discovered, target, dropped, probe>>

\* The list assigned as soon as every unit has been submitted, without the loop
\* of as_completed having seen every result.
PublishFindingsEarly ==
    /\ pc \in PoolPcs
    /\ Len(futures) = UnitCount(EngineAt(pc), urls_with_params)
    /\ Pending = {} /\ Running = {}
    /\ results' = [results EXCEPT ![ResultKey(EngineAt(pc))] = local]
    /\ pc' = DonePc(EngineAt(pc))
    /\ futures' = <<>>
    /\ local' = <<>>
    /\ urls_with_params' = <<>>
    /\ UNCHANGED <<net, discovered, target, dropped, probe>>

\* The loop of as_completed ends, the "with" block closes, manual_*_testing
\* returns and the caller assigns the list: self.results[key] = list.
PublishFindings ==
    /\ pc \in PoolPcs
    /\ Len(futures) = UnitCount(EngineAt(pc), urls_with_params)
    /\ \A i \in 1..Len(futures) : futures[i].state = "yielded"
    /\ results' = [results EXCEPT ![ResultKey(EngineAt(pc))] = local]
    /\ pc' = DonePc(EngineAt(pc))
    /\ futures' = <<>>
    /\ local' = <<>>
    /\ urls_with_params' = <<>>
    /\ UNCHANGED <<net, discovered, target, dropped, probe>>

(***************************************************************************)
(* The CORS phase: a loop of the main thread, without a pool.              *)
(***************************************************************************)
\* "for url in self.results['live_subdomains'][:10]: for origin in
\* test_origins:", in the order of the iterations
CorsPairs(live) ==
    [k \in 1..(Len(Take(live, 10)) * Len(test_origins)) |->
        [url |-> Take(live, 10)[((k - 1) \div Len(test_origins)) + 1],
         origin |-> test_origins[((k - 1) % Len(test_origins)) + 1]]]

\* Where the main thread is in the loop of manual_cors_testing: before its k-th
\* iteration.
CorsPcs == <<"cors_1", "cors_2", "cors_3">>

CorsAt(p) == CHOOSE k \in DOMAIN CorsPcs : CorsPcs[k] = p

\* cors_comprehensive_testing up to the loop of manual_cors_testing:
\* "cors_issues = []" and the external tools
cors_comprehensive_testing ==
    /\ pc = "lfi_done"
    /\ pc' = IF CorsPairs(results.live_subdomains) = <<>> THEN "cors_collected"
             ELSE CorsPcs[1]
    /\ local' = <<>>
    /\ UNCHANGED <<results, futures, urls_with_params, net, discovered, target, dropped, probe>>

\* An iteration that appends to self.results['cors_issues'] itself.
CorsRequestShared ==
    /\ \E n \in DOMAIN CorsPcs : pc = CorsPcs[n]
    /\ LET k == CorsAt(pc)
           pair == CorsPairs(results.live_subdomains)[k]
           h == CorsHeaders(target, pair.origin)
           finding == CorsClassify(pair.url, pair.origin, h.acao, h.acac)
       IN  /\ results' = IF ~h.err /\ finding # None
                         THEN [results EXCEPT !.cors_issues = Append(@, finding)]
                         ELSE results
           /\ local' = IF ~h.err /\ finding # None THEN Append(local, finding) ELSE local
           /\ pc' = IF k < Len(CorsPairs(results.live_subdomains))
                    THEN CorsPcs[k + 1] ELSE "cors_collected"
    /\ UNCHANGED <<futures, urls_with_params, net, discovered, target, dropped, probe>>

\* One iteration of manual_cors_testing: the request, the check, "except:
\* continue"
CorsRequest ==
    /\ \E n \in DOMAIN CorsPcs : pc = CorsPcs[n]
    /\ LET k == CorsAt(pc)
           pair == CorsPairs(results.live_subdomains)[k]
           h == CorsHeaders(target, pair.origin)
           finding == CorsClassify(pair.url, pair.origin, h.acao, h.acac)
       IN  /\ local' = IF ~h.err /\ finding # None THEN Append(local, finding) ELSE local
           /\ pc' = IF k < Len(CorsPairs(results.live_subdomains))
                    THEN CorsPcs[k + 1] ELSE "cors_collected"
    /\ UNCHANGED <<results, futures, urls_with_params, net, discovered, target, dropped, probe>>

\* "self.results['cors_issues'] = cors_issues"
PublishCors ==
    /\ pc = "cors_collected"
    /\ pc' = "cors_done"
    /\ results' = [results EXCEPT !.cors_issues = local]
    /\ local' = <<>>
    /\ UNCHANGED <<futures, urls_with_params, net, discovered, target, dropped, probe>>

(***************************************************************************)
(* The rest of run_full_scan.                                              *)
(***************************************************************************)
\* The other checks of phase 5, then phases 6 to 16.
RemainingPhases == Goto("cors_done", "phases_done")

\* The statistics with a count of the requests that raised.
StatisticsWithErrors(r) ==
    [total_subdomains |-> Len(r.subdomains),
     live_subdomains |-> Len(r.live_subdomains),
     total_urls |-> Len(r.urls),
     sensitive_files |-> Len(r.sensitive_files),
     vulnerabilities_found |->
         Len(r.xss_vulnerabilities) + Len(r.sql_injection)
         + Len(r.lfi_vulnerabilities) + Len(r.cors_issues)
         + Len(r.subdomain_takeover),
     api_keys_found |-> Len(r.api_keys),
     open_ports |-> Len(r.open_ports),
     errors |-> net.failed]

\* self.results['statistics'] of generate_comprehensive_report
Statistics(r) ==
    [total_subdomains |-> Len(r.subdomains),
     live_subdomains |-> Len(r.live_subdomains),
     total_urls |-> Len(r.urls),
     sensitive_files |-> Len(r.sensitive_files),
     vulnerabilities_found |->
         Len(r.xss_vulnerabilities) + Len(r.sql_injection)
         + Len(r.lfi_vulnerabilities) + Len(r.cors_issues)
         + Len(r.subdomain_takeover),
     api_keys_found |-> Len(r.api_keys),
     open_ports |-> Len(r.open_ports)]

\* generate_comprehensive_report up to the first file it writes: the status
\* 'completed', the completion time and the statistics.
generate_comprehensive_report ==
    /\ pc = "phases_done"
    /\ pc' = "report"
    /\ results' = [results EXCEPT !.status = "completed"]
                      @@ ("completion_time" :> "now")
                      @@ ("statistics" :> Statistics(results))
    /\ UNCHANGED <<futures, local, urls_with_params, net, discovered, target, dropped, probe>>

\* ... the report files are written, "return self.results"
ReportReturn == Goto("report", "returned")

\* The positions where a call of the main thread can raise an Exception that
\* nothing below run_full_scan catches (a file that cannot be written, ...).
RaisePoints ==
    {"subdomain_enum", "live_filtering", "url_collection", "sensitive_files",
     "vulnerability_scan", "lfi_done", "report"}

\* An "except Exception" that records the error but leaves the status as it is.
RaiseExceptionKeepsStatus ==
    /\ pc \in RaisePoints
    /\ pc' = "returned_failed"
    /\ results' = results @@ ("error" :> "str(e)")
    /\ UNCHANGED <<futures, local, urls_with_params, net, discovered, target, dropped, probe>>

\* An "except Exception" that reports a fresh result instead of the scan's.
RaiseExceptionFreshResult ==
    /\ pc \in RaisePoints
    /\ pc' = "returned_failed"
    /\ results' = [InitResults EXCEPT !.status = "failed"] @@ ("error" :> "str(e)")
    /\ UNCHANGED <<futures, local, urls_with_params, net, discovered, target, dropped, probe>>

\* "except Exception as e:" of run_full_scan
RaiseException ==
    /\ pc \in RaisePoints
    /\ pc' = "returned_failed"
    /\ results' = [results EXCEPT !.status = "failed"] @@ ("error" :> "str(e)")
    /\ UNCHANGED <<futures, local, urls_with_params, net, discovered, target, dropped, probe>>

\* Ctrl-C, once in a scan: KeyboardInterrupt is raised in the main thread.  Outside a pool it
\* reaches "except KeyboardInterrupt" of run_full_scan at once.  Inside a "with
\* ThreadPoolExecutor" block it first runs the block's __exit__, which is
\* shutdown(wait=True).
KeyboardInterrupt ==
    /\ pc \notin Returned \cup {"shutdown_wait"}
    /\ IF pc \in PoolPcs
       THEN /\ pc' = "shutdown_wait"
            /\ dropped' = [engine |-> EngineAt(pc), list |-> local]
            /\ futures' = [i \in 1..Len(futures) |->
                             IF futures[i].state = "yielded"
                             THEN [futures[i] EXCEPT !.state = "done"]
                             ELSE futures[i]]
            /\ UNCHANGED results
       ELSE /\ pc' = "returned_interrupted"
            /\ results' = [results EXCEPT !.status = "interrupted"]
            /\ UNCHANGED <<dropped, futures>>
    /\ UNCHANGED <<local, urls_with_params, net, discovered, target, probe>>

\* shutdown(wait=True) returns when every queued unit has run; the exception
\* then reaches "except KeyboardInterrupt" of run_full_scan.
ShutdownReturn ==
    /\ pc = "shutdown_wait"
    /\ Pending = {} /\ Running = {}
    /\ pc' = "returned_interrupted"
    /\ results' = [results EXCEPT !.status = "interrupted"]
    /\ futures' = <<>>
    /\ local' = <<>>
    /\ urls_with_params' = <<>>
    /\ UNCHANGED <<net, discovered, target, dropped, probe>>

Next ==
    \/ subdomain_enumeration_advanced
    \/ filter_live_subdomains_advanced
    \/ comprehensive_url_collection
    \/ SaveUrls
    \/ comprehensive_sensitive_file_detection
    \/ comprehensive_vulnerability_scanning
    \/ xss_comprehensive_testing
    \/ sql_injection_comprehensive
    \/ lfi_comprehensive_testing
    \/ ExecutorSubmit
    \/ WorkerStart
    \/ SqliRequestDone
    \/ WorkerFinish
    \/ AsCompleted
    \/ PublishFindings
    \/ cors_comprehensive_testing
    \/ CorsRequest
    \/ PublishCors
    \/ RemainingPhases
    \/ generate_comprehensive_report
    \/ ReportReturn
    \/ RaiseException
    \/ KeyboardInterrupt
    \/ ShutdownReturn

Spec == Init /\ [][Next]_vars

\* The scans of a server that answers every request, on the corpus PoolCorpus.
InitPool ==
    /\ pc = "start"
    /\ results = InitResults
    /\ futures = <<>>
    /\ local = <<>>
    /\ urls_with_params = <<>>
    /\ net = [sent |-> 0, failed |-> 0, baseline_sent |-> <<>>,
              baseline_done |-> <<>>, payload_sent |-> <<>>]
    /\ discovered = PoolCorpus
    /\ target = "clean"
    /\ dropped = [engine |-> "none", list |-> <<>>]
    /\ probe = NoProbe

SpecPool == InitPool /\ [][Next]_vars

\* A scan of a clean server whose collectors found TwinCorpus.
InitTwins ==
    /\ pc = "start"
    /\ results = InitResults
    /\ futures = <<>>
    /\ local = <<>>
    /\ urls_with_params = <<>>
    /\ net = [sent |-> 0, failed |-> 0, baseline_sent |-> <<>>,
              baseline_done |-> <<>>, payload_sent |-> <<>>]
    /\ discovered = TwinCorpus
    /\ target = "clean"
    /\ dropped = [engine |-> "none", list |-> <<>>]
    /\ probe = NoProbe

SpecTwins == InitTwins /\ [][Next]_vars

\* The URL list of the scans of SpecLive
LiveCorpus == <<UrlView>>

\* A scan of LiveCorpus on a server that leaves some requests unanswered until
\* their timeout ("flaky").
InitLive ==
    /\ pc = "start"
    /\ results = InitResults
    /\ futures = <<>>
    /\ local = <<>>
    /\ urls_with_params = <<>>
    /\ net = [sent |-> 0, failed |-> 0, baseline_sent |-> <<>>,
              baseline_done |-> <<>>, payload_sent |-> <<>>]
    /\ discovered = LiveCorpus
    /\ target = "flaky"
    /\ dropped = [engine |-> "none", list |-> <<>>]
    /\ probe = NoProbe

\* The threads of a pool and the main thread are scheduled fairly, and every
\* request returns or raises within its timeout (timeout=10, timeout=15): a step
\* of a pool or of the main thread inside a "with ThreadPoolExecutor" block that
\* stays possible is taken.
PoolFairness ==
    /\ WF_vars(ExecutorSubmit)
    /\ WF_vars(WorkerStart)
    /\ WF_vars(SqliRequestDone)
    /\ WF_vars(WorkerFinish)
    /\ WF_vars(AsCompleted)
    /\ WF_vars(PublishFindings)
    /\ WF_vars(ShutdownReturn)

SpecLive == InitLive /\ [][Next]_vars /\ PoolFairness

(***************************************************************************)
(* The checks on their own: each is handed one response from a bounded set *)
(* of responses and its verdict is kept in probe.                          *)
(***************************************************************************)
scan_vars == <<pc, results, futures, local, urls_with_params, net, discovered, target,
              dropped>>

\* The bodies a server may send back for an XSS payload.
XssTexts(payload) ==
    {<<>>, BodyOk, payload, HtmlEscape(payload), Page(payload), Page(HtmlEscape(payload)),
     payload \o HtmlEscape(payload), HtmlEscape(payload) \o BodyOk \o payload,
     Page(Take(payload, Len(payload) - 1))}

\* test_xss_payload's two checks on one response
ClassifyXss ==
    /\ \E method \in {"GET", "POST"}, n \in 1..Len(PhasePayloads("xss")) :
         \E text \in XssTexts(PhasePayloads("xss")[n]) :
            LET payload == PhasePayloads("xss")[n]
            IN  probe' = [kind |-> "xss", method |-> method, payload |-> payload,
                          text |-> text,
                          finding |-> IF method = "GET"
                                      THEN XssGetFinding(ReSubValues(UrlView, Quote(payload)),
                                                         payload, text)
                                      ELSE XssPostFinding(UrlBase(UrlView),
                                                          <<"f", "i", "l", "e">>,
                                                          payload, text)]
    /\ UNCHANGED scan_vars

\* The bodies of the baseline and of the mutated response of a SQLi probe.
SqliTexts ==
    {BodyOk, BodyDbError,
     <<"S", "Q", "L", "i", "t", "e">>,
     <<"s", "q", "l", "i", "t", "e", " ", "M", "y", "S", "Q", "L">>,
     <<"O", "R", "A", "-", "1">>}

\* Their elapsed times, in milliseconds.
BaselineTimes == {200, 400}

MutatedTimes == {200, 900, 5200, 5201, 5400}

\* test_sqli_payload's checks on one pair of responses
ClassifySqli ==
    /\ \E otext \in SqliTexts, ttext \in SqliTexts :
         \E otime \in BaselineTimes, ttime \in MutatedTimes :
            LET payload == PhasePayloads("sqli")[1]
                original == Answer(otext, otime)
                test == Answer(ttext, ttime)
            IN  probe' = [kind |-> "sqli", payload |-> payload, original |-> original,
                          test |-> test,
                          finding |-> SqliClassify(ReSubValues(UrlItem, Quote(payload)),
                                                   payload, original, test)]
    /\ UNCHANGED scan_vars

\* The bodies a server may send back for an LFI payload.
LfiTexts ==
    {<<>>, BodyOk, BodyPasswd,
     <<"R", "O", "O", "T", ":", "X", ":">>,
     <<"d", "a", "e", "m", "o", "n", ":">>,
     <<"b", "i", "n", ":", " ", "r", "o", "o", "t", ":", "x", ":">>,
     <<"a", "d", "m", ":", "s", "y", "s", ":">>,
     <<"u", "s", "e", "r", ".", "d", "a", "t">>,
     <<"r", "o", "o", "t", ":", "x">>}

\* test_lfi_payload's check on one response
ClassifyLfi ==
    /\ \E n \in 1..Len(lfi_payloads), text \in LfiTexts :
         probe' = [kind |-> "lfi", payload |-> lfi_payloads[n], text |-> text,
                   finding |-> LfiClassify(ReSubValues(UrlView, Quote(lfi_payloads[n])),
                                           lfi_payloads[n], text)]
    /\ UNCHANGED scan_vars

\* The values of Access-Control-Allow-Origin and Access-Control-Allow-Credentials
\* a server may answer with ('' when the header is absent).
AcaoValues ==
    {"", "*", "https://evil.com", "null", "https://attacker.com", "https://evil.com.x"}

AcacValues == {"", "true", "false", "True"}

\* manual_cors_testing's check on one response
ClassifyCors ==
    /\ \E n \in 1..Len(test_origins), acao \in AcaoValues, acac \in AcacValues :
         probe' = [kind |-> "cors", origin |-> test_origins[n], acao |-> acao,
                   acac |-> acac,
                   finding |-> CorsClassify("live", test_origins[n], acao, acac)]
    /\ UNCHANGED scan_vars

\* The bodies a server may send back to a request with an injected header.
HeaderTexts ==
    {<<>>, BodyOk, EvilCom, Page(Loopback), Page(EvilCom) \o BodyOk,
     <<"E", "V", "I", "L", ".", "C", "O", "M">>, <<"e", "v", "i", "l">>,
     <<"1", "2", "7", ".", "0", ".", "0", ".", "2">>}

\* manual_header_injection_testing's check on one response
ClassifyHeader ==
    /\ \E n \in 1..Len(test_headers), text \in HeaderTexts :
         probe' = [kind |-> "header", header |-> test_headers[n].header,
                   value |-> test_headers[n].value, text |-> text,
                   finding |-> HeaderClassify("live", test_headers[n].header,
                                              test_headers[n].value, text)]
    /\ UNCHANGED scan_vars

\* A URL with two query parameters
UrlSearch == <<"/", "s", "?", "q", "=", "a", "&", "n", "=", "1">>

\* The URLs whose probe requests are built
RequestUrls == {UrlItem, UrlView, UrlSearch}

\* The requests a unit builds for a URL and a payload: the GET of the three unit
\* functions (method "GET", where slot is any parameter of the URL) and the POST
\* of test_xss_payload for the slot-th parameter.
BuildRequest ==
    /\ \E e \in Engines, url \in RequestUrls, method \in {"GET", "POST"} :
         \E n \in 1..Len(PhasePayloads(e)),
            slot \in 1..Len(DictOf(QueryPairs(UrlQuery(url)))) :
            LET payload == PhasePayloads(e)[n]
                params == DictOf(QueryPairs(UrlQuery(url)))
            IN  /\ method = "POST" => e = "xss"
                /\ probe' = [kind |-> "request", engine |-> e, url |-> url,
                             payload |-> payload, slot |-> slot, params |-> params,
                             request |-> IF method = "GET"
                                         THEN GetRequest(ReSubValues(url, Quote(payload)))
                                         ELSE PostRequest(UrlBase(url),
                                                          FormData(params, slot, payload))]
    /\ UNCHANGED scan_vars

\* The nested loops "for url in urls_with_params[:limit]: for payload in
\* catalog[:limit]: executor.submit(...)" on a catalog of size entries and a list
\* of points URLs: how many payloads each URL gets and how many units there are.
CountUnits ==
    /\ \E e \in Engines, size \in 0..MaxCatalog, points \in 0..MaxPoints :
         LET catalog == [i \in 1..size |-> i]
             with_params == [i \in 1..points |-> i]
         IN  probe' = [kind |-> "matrix", engine |-> e, catalog |-> size,
                       points |-> points,
                       admitted |-> Len(PhaseUrls(e, with_params)),
                       tried |-> Len(PayloadsTried(e, catalog)),
                       units |-> Len(PhaseUrls(e, with_params))
                                    * Len(PayloadsTried(e, catalog))]
    /\ UNCHANGED scan_vars

\* The statuses of a scan that goes well, in their order.
StatusOrder ==
    <<"initialized", "subdomain_enum", "live_filtering", "url_collection",
      "sensitive_files", "vulnerability_scan", "completed">>

FinalStatuses == {"completed", "interrupted", "failed"}

\* WebInterface.calculate_progress: the list it looks the status up in.
phases ==
    <<"subdomain_enum", "live_filtering", "url_collection", "sensitive_files",
      "vulnerability_scan", "completed">>

\* WebInterface.calculate_progress(results): phases.index(...) counts from 0.  The
\* branch "elif current_phase == 'completed'" comes after the list test.
calculate_progress(res) ==
    LET current_phase == IF "status" \in DOMAIN res THEN res.status ELSE "initialized"
        index == (CHOOSE n \in DOMAIN phases : phases[n] = current_phase) - 1
    IN  IF \E n \in DOMAIN phases : phases[n] = current_phase
        THEN (index + 1) * 20
        ELSE IF current_phase = "completed" THEN 100 ELSE 10

\* The result dictionaries calculate_progress is handed: one for each status of a
\* scan, and one without a 'status' key.
ProgressInputs ==
    {[target |-> "t", status |-> st] :
        st \in {StatusOrder[n] : n \in DOMAIN StatusOrder} \cup {"interrupted", "failed"}}
    \cup {[target |-> "t"]}

\* scan_status computes 'progress' for a result dictionary.
ReportProgress ==
    /\ \E res \in ProgressInputs :
         probe' = [kind |-> "progress", results |-> res,
                   progress |-> calculate_progress(res)]
    /\ UNCHANGED scan_vars

\* "/v?file=<c>": the k-th URL with the keyword 'file' in a parameter name, told
\* apart by its value.
UrlFile(k) ==
    LET values == <<"0", "1", "2", "3", "4", "5", "6", "7", "8", "9", "a", "b", "c",
                    "d", "e", "f", "g", "h", "i", "j", "k", "l", "m", "n", "o", "p",
                    "q", "r", "s", "t", "u", "v", "w", "x", "y", "z">>
    IN  <<"/", "v", "?", "f", "i", "l", "e", "=", values[k]>>

\* "/File?id=1": a keyword in the path, in upper case, and a parameter of another
\* name; "/file": a keyword and no '='.
UrlFilePath == <<"/", "F", "i", "l", "e", "?", "i", "d", "=", "1">>

\* The URLs put among those of UrlFile in a corpus.
OtherUrls == {UrlItem, UrlAbout, UrlFilePath, <<"/", "f", "i", "l", "e">>}

\* One more URL is found for the corpus: the next URL of UrlFile, or, once, a URL
\* of OtherUrls.
DiscoverUrl ==
    LET others == {i \in DOMAIN discovered : discovered[i] \in OtherUrls}
        k == Len(discovered) - Cardinality(others) + 1
    IN  /\ \/ k <= MaxLfiUrls /\ discovered' = Append(discovered, UrlFile(k))
           \/ others = {} /\ \E other \in OtherUrls : discovered' = Append(discovered, other)
        /\ probe' = NoProbe
        /\ UNCHANGED <<pc, results, futures, local, urls_with_params, net, target, dropped>>

\* manual_lfi_testing up to its submit loop, on self.results['urls'] = discovered:
\* the list urls_with_params, the URLs the loop takes, and the number of units
\* submitted.
SelectLfiUrls ==
    /\ LET with_params == PhaseFilter("lfi", discovered)
       IN  probe' = [kind |-> "lfi_urls", urls |-> discovered,
                     with_params |-> with_params,
                     probed |-> PhaseUrls("lfi", with_params),
                     units |-> Len(PhaseUrls("lfi", with_params))
                                  * Len(PhasePayloads("lfi"))]
    /\ UNCHANGED scan_vars

NextClassify ==
    \/ BuildRequest
    \/ ReportProgress
    \/ CountUnits
    \/ ClassifyXss
    \/ ClassifySqli
    \/ ClassifyLfi
    \/ ClassifyCors
    \/ ClassifyHeader

\* No scan is running: only the checks are applied.
InitClassify ==
    /\ pc = "start"
    /\ results = InitResults
    /\ futures = <<>>
    /\ local = <<>>
    /\ urls_with_params = <<>>
    /\ net = [sent |-> 0, failed |-> 0, baseline_sent |-> <<>>,
              baseline_done |-> <<>>, payload_sent |-> <<>>]
    /\ discovered = <<>>
    /\ target = "clean"
    /\ dropped = [engine |-> "none", list |-> <<>>]
    /\ probe = NoProbe

SpecClassify == InitClassify /\ [][NextClassify]_vars

\* The corpus grows one URL at a time and the LFI filter is applied to it.
SpecCorpus == InitClassify /\ [][DiscoverUrl \/ SelectLfiUrls]_vars

(***************************************************************************)
(* WebInterface: scans started over HTTP run in a thread of their own; the *)
(* routes read active_scans.  probe holds the interface: the scan_id of    *)
(* the scan started last (0: none), active_scans, and the last reply.      *)
(***************************************************************************)
NotFound(route, scan_id) ==
    [route |-> route, scan_id |-> scan_id, code |-> 404, error |-> "Scan not found"]

\* WebInterface.__init__: no scan yet.
InitWeb ==
    /\ pc = "idle"
    /\ results = InitResults
    /\ futures = <<>>
    /\ local = <<>>
    /\ urls_with_params = <<>>
    /\ net = [sent |-> 0, failed |-> 0, baseline_sent |-> <<>>,
              baseline_done |-> <<>>, payload_sent |-> <<>>]
    /\ discovered = LiveCorpus
    /\ target = "clean"
    /\ dropped = [engine |-> "none", list |-> <<>>]
    /\ probe = [kind |-> "web", scan_id |-> 0, active_scans |-> <<>>,
                reply |-> [route |-> "none"]]

\* POST /api/scan with no domain, a malformed one, or a valid one.  A valid one
\* makes a scanner and starts its thread; the scan before it has ended (scans are
\* modelled one after the other, each with a scan_id of its own).
start_scan ==
    /\ probe.kind = "web"
    /\ \/ pc = "idle"
       \/ pc \in Returned /\ probe.scan_id \in DOMAIN probe.active_scans
    /\ \E domain \in {"missing", "malformed", "valid"} :
         IF domain = "valid"
         THEN /\ probe.scan_id < MaxScans
              /\ pc' = "start"
              /\ results' = InitResults
              /\ futures' = <<>>
              /\ local' = <<>>
              /\ urls_with_params' = <<>>
              /\ net' = [sent |-> 0, failed |-> 0, baseline_sent |-> <<>>,
                         baseline_done |-> <<>>, payload_sent |-> <<>>]
              /\ dropped' = [engine |-> "none", list |-> <<>>]
              /\ probe' = [probe EXCEPT
                             !.scan_id = @ + 1,
                             !.reply = [route |-> "start_scan", scan_id |-> probe.scan_id + 1,
                                        code |-> 200, status |-> "started"]]
              /\ UNCHANGED <<discovered, target>>
         ELSE /\ probe' = [probe EXCEPT
                             !.reply = [route |-> "start_scan", code |-> 400,
                                        error |-> IF domain = "missing"
                                                  THEN "Domain is required"
                                                  ELSE "Invalid domain format"]]
              /\ UNCHANGED scan_vars

\* A step of scanner.run_full_scan() in the scan's thread.  KeyboardInterrupt is
\* raised in the main thread only, never in this one.
run_full_scan ==
    /\ probe.kind = "web"
    /\ Next
    /\ ~KeyboardInterrupt

\* A thread that enters the scanner's result dictionary when it starts, before
\* the scan has run.
run_scan_at_start ==
    /\ probe.kind = "web"
    /\ pc \notin {"idle"}
    /\ probe.scan_id \notin DOMAIN probe.active_scans
    /\ probe' = [probe EXCEPT !.active_scans = @ @@ (probe.scan_id :> results)]
    /\ UNCHANGED scan_vars

\* run_scan: self.active_scans[scan_id] = <what run_full_scan returned>
run_scan ==
    /\ probe.kind = "web"
    /\ pc \in Returned
    /\ probe.scan_id \notin DOMAIN probe.active_scans
    /\ probe' = [probe EXCEPT !.active_scans = @ @@ (probe.scan_id :> results)]
    /\ UNCHANGED scan_vars

\* GET /api/scan/<scan_id>/status
scan_status ==
    /\ probe.kind = "web"
    /\ \E scan_id \in 1..MaxScans :
         probe' = [probe EXCEPT !.reply =
                     IF scan_id \notin DOMAIN probe.active_scans
                     THEN NotFound("scan_status", scan_id)
                     ELSE LET res == probe.active_scans[scan_id]
                          IN  [route |-> "scan_status", scan_id |-> scan_id, code |-> 200,
                               status |-> IF "status" \in DOMAIN res
                                          THEN res.status ELSE "unknown",
                               statistics |-> IF "statistics" \in DOMAIN res
                                              THEN res.statistics ELSE <<>>,
                               progress |-> calculate_progress(res)]]
    /\ UNCHANGED scan_vars

\* GET /api/scan/<scan_id>/results
scan_results ==
    /\ probe.kind = "web"
    /\ \E scan_id \in 1..MaxScans :
         probe' = [probe EXCEPT !.reply =
                     IF scan_id \notin DOMAIN probe.active_scans
                     THEN NotFound("scan_results", scan_id)
                     ELSE [route |-> "scan_results", scan_id |-> scan_id, code |-> 200,
                           body |-> probe.active_scans[scan_id]]]
    /\ UNCHANGED scan_vars

NextWeb ==
    \/ start_scan
    \/ run_full_scan
    \/ run_scan
    \/ scan_status
    \/ scan_results

SpecWeb == InitWeb /\ [][NextWeb]_vars

(***************************************************************************)
(* Properties.                                                             *)
(***************************************************************************)
\* The positions of a scan that has gone through the whole SQLi phase.
SqliOver ==
    {"sqli_done", "lfi_pool", "lfi_done", "cors_1", "cors_2", "cors_3", "cors_collected",
     "cors_done", "phases_done", "report", "returned"}

\* The units of the open pool that a thread has taken, for the n-th URL.
StartedFor(n) ==
    {i \in 1..Len(futures) :
        futures[i].state # "pending" /\ UnitUrlIndex(PoolEngine, i) = n}

\* C1 as the specification states it: for every parameterised URL the SQLi phase
\* probes, the unmutated baseline request is sent exactly once in a scan, however
\* many payloads are tried on that URL.
C1_BaselineOncePerPoint ==
    /\ \A n \in DOMAIN net.baseline_sent : net.baseline_sent[n] <= 1
    /\ pc \in SqliOver => \A n \in DOMAIN net.baseline_sent : net.baseline_sent[n] = 1

\* C1 as amended: the baseline request of a URL is sent once by every unit of that
\* URL, when the unit starts: after the SQLi phase it has been sent as many times
\* as payloads were tried on the URL (SQLI_PAYLOAD_LIMIT of them).
C1_BaselineOncePerUnit ==
    /\ (PoolOpen /\ PoolEngine = "sqli") =>
          \A n \in DOMAIN net.baseline_sent :
              net.baseline_sent[n] = Cardinality(StartedFor(n))
    /\ pc \in SqliOver =>
          \A n \in DOMAIN net.baseline_sent :
              net.baseline_sent[n] = SQLI_PAYLOAD_LIMIT

\* A scan has returned after probing a URL with SQLI_PAYLOAD_LIMIT payloads and as
\* many baseline requests.
C1_Witness ==
    /\ pc = "returned"
    /\ Len(net.baseline_sent) >= 1
    /\ net.baseline_sent[1] = SQLI_PAYLOAD_LIMIT
    /\ net.payload_sent[1] = SQLI_PAYLOAD_LIMIT

PhaseOver(e) ==
    CASE e = "xss" -> SqliOver \cup {"xss_done", "sqli_pool"}
      [] e = "sqli" -> SqliOver
      [] OTHER -> SqliOver \ {"sqli_done", "lfi_pool"}

\* The list a finished phase has assigned to self.results.
Published(e) == results[ResultKey(e)]

\* Whether some request of the k-th payload's unit on url raises.
UnitFailed(e, beh, url, k) ==
    IF e = "sqli"
    THEN \E n \in DOMAIN SqliTable[beh][url][k].raises : SqliTable[beh][url][k].raises[n]
    ELSE RunUnitTable[e][beh][url][k].failed > 0

\* What the k-th payload's unit on url returns.
UnitResult(e, beh, url, k) ==
    IF e = "sqli"
    THEN IF UnitFailed(e, beh, url, k) THEN None ELSE SqliTable[beh][url][k].result
    ELSE RunUnitTable[e][beh][url][k].result

\* The units of a phase of this scan, in submission order.
PhaseUnits(e) ==
    LET with_params == PhaseFilter(e, results.urls)
    IN  [n \in 1..UnitCount(e, with_params) |->
           [url |-> UnitAt(e, with_params, n).url,
            payload |-> UnitAt(e, with_params, n).payload,
            k |-> ((n - 1) % Len(PhasePayloads(e))) + 1]]

\* What the units of a phase return, with what sqlmap found before them.
Returns(e) ==
    LET units == PhaseUnits(e)
        values == [n \in 1..Len(units) |->
                     UnitResult(e, target, units[n].url, units[n].k)]
    IN  IF e = "sqli" THEN SqlmapFindings(target, results.urls) \o values ELSE values

Count(list, f) == Cardinality({i \in DOMAIN list : list[i] = f})

Range(list) == {list[i] : i \in DOMAIN list}

RiskRank(risk) ==
    CASE risk = "Critical" -> 4
      [] risk = "High" -> 3
      [] risk = "Medium" -> 2
      [] OTHER -> 1

\* C3 as the specification states it: a published finding list holds at most one
\* finding per (url, parameter, category), and for every finding a unit returned the
\* list holds one of the same key with at least its risk.
C3_OneFindingPerKey ==
    \A e \in Engines :
        /\ \A i, j \in DOMAIN Published(e) :
              i # j => DedupKey(Published(e)[i]) # DedupKey(Published(e)[j])
        /\ pc \in PhaseOver(e) =>
              \A f \in Range(Returns(e)) \ {None} :
                  \E m \in DOMAIN Published(e) :
                      /\ DedupKey(Published(e)[m]) = DedupKey(f)
                      /\ RiskRank(Published(e)[m].risk) >= RiskRank(f.risk)

\* C3 as amended: nothing is merged.  The list a finished phase publishes holds
\* every finding exactly as many times as units returned it, also when several
\* findings share (url, parameter, category), whatever their risk; this content is
\* the same for every arrival order.
C3_EveryFindingRetained ==
    \A e \in Engines :
        pc \in PhaseOver(e) =>
            \A f \in (Range(Published(e)) \cup Range(Returns(e))) \ {None} :
                Count(Published(e), f) = Count(Returns(e), f)

\* The XSS phase has published two findings of the same (url, parameter, category).
C3_Witness ==
    /\ pc = "xss_done"
    /\ \E i, j \in DOMAIN results.xss_vulnerabilities :
          /\ i < j
          /\ DedupKey(results.xss_vulnerabilities[i])
               = DedupKey(results.xss_vulnerabilities[j])

\* C4: when the scan was interrupted while a pool was open, the returned result
\* holds every finding the phase had collected when the interrupt arrived.
C4_CollectedFindingsReturned ==
    pc = "returned_interrupted" =>
        \A n \in DOMAIN dropped.list :
            \E m \in DOMAIN results[ResultKey(dropped.engine)] :
                results[ResultKey(dropped.engine)][m] = dropped.list[n]

\* C5: once the interrupt has arrived, no unit that was still queued is started.
C5_NoStartAfterCancel ==
    [][(pc = "shutdown_wait" /\ pc' = "shutdown_wait") =>
          \A i \in Pending : futures'[i].state = "pending"]_vars

\* C6: while a pool is open, the number of units running is at most max_workers
\* of that pool: 10 for XSS and LFI, 5 for SQLi.
C6_RunningAtMostPoolSize ==
    PoolOpen =>
        Cardinality(Running) <=
            (CASE PoolEngine = "xss" -> XSS_MAX_WORKERS
               [] PoolEngine = "sqli" -> SQLI_MAX_WORKERS
               [] OTHER -> LFI_MAX_WORKERS)

\* Every thread of the SQLi pool runs a unit and further units wait.
C6_Witness ==
    /\ pc = "sqli_pool"
    /\ Cardinality(Running) = SQLI_MAX_WORKERS
    /\ Pending # {}

\* C7 as the specification states it: while all max_workers threads are busy, no
\* further unit gets submitted (the submitter blocks).
C7_SubmitBlocksWhenSaturated ==
    [][(pc \in PoolPcs /\ Cardinality(Running) = MaxWorkers(EngineAt(pc))) =>
          Len(futures') <= Len(futures)]_vars

Min(a, b) == IF a <= b THEN a ELSE b

\* The number of units a phase submits for n URLs that pass its filter.
PhaseMatrix(e, n) ==
    CASE e = "xss" -> Min(n, XSS_URL_LIMIT) * XSS_PAYLOAD_LIMIT
      [] e = "sqli" -> Min(n, SQLI_URL_LIMIT) * SQLI_PAYLOAD_LIMIT
      [] OTHER -> Min(n, LFI_URL_LIMIT) * Len(lfi_payloads)

\* C7 as amended: submitting never blocks; the units submitted and not yet started
\* are bounded by the number of units of the phase only, (URLs that pass the
\* filter, at most the phase's URL limit) x (payloads tried per URL).
C7_QueueBoundedByPhaseMatrix ==
    PoolOpen =>
        /\ Len(futures) <= PhaseMatrix(PoolEngine, Len(urls_with_params))
        /\ Cardinality(Pending) <= PhaseMatrix(PoolEngine, Len(urls_with_params))

\* Every thread of the SQLi pool is busy and all the other units of the phase have
\* been submitted behind them.
C7_Witness ==
    /\ pc = "sqli_pool"
    /\ Cardinality(Running) = SQLI_MAX_WORKERS
    /\ Pending # {}
    /\ Cardinality(Pending) =
          PhaseMatrix("sqli", Len(urls_with_params)) - SQLI_MAX_WORKERS

\* Whether a finding is one of the unit (url, payload).
FindingOfUnit(f, unit) ==
    /\ "payload" \in DOMAIN f
    /\ f.payload = unit.payload
    /\ UrlBase(f.url) = UrlBase(unit.url)

\* C8: a unit one of whose requests raises returns no finding, and the scan goes
\* on: the list the phase publishes holds no finding of such a unit and holds the
\* finding of every other unit that returned one.
C8_FailedUnitYieldsNothing ==
    /\ PoolOpen =>
          \A i \in Finished :
              UnitFailed(PoolEngine, target, UnitOf(i).url,
                         PayloadIndex(PoolEngine, UnitOf(i).payload))
                  => futures[i].result = None
    /\ \A e \in Engines :
          pc \in PhaseOver(e) =>
              \A n \in DOMAIN PhaseUnits(e) :
                  LET unit == PhaseUnits(e)[n]
                  IN  IF UnitFailed(e, target, unit.url, unit.k)
                      THEN \A m \in DOMAIN Published(e) :
                              ~FindingOfUnit(Published(e)[m], unit)
                      ELSE UnitResult(e, target, unit.url, unit.k) # None =>
                              \E m \in DOMAIN Published(e) :
                                  Published(e)[m] = UnitResult(e, target, unit.url, unit.k)

\* The XSS phase is over on a server that refused the request of one unit and
\* reflected the payload of another: the second unit's finding is published.
C8_Witness ==
    /\ pc = "xss_done"
    /\ \E n \in DOMAIN PhaseUnits("xss") :
          UnitFailed("xss", target, PhaseUnits("xss")[n].url, PhaseUnits("xss")[n].k)
    /\ results.xss_vulnerabilities # <<>>
    /\ net.failed > 0

\* The keys of self.results['statistics'].
StatisticsKeys ==
    {"total_subdomains", "live_subdomains", "total_urls", "sensitive_files",
     "vulnerabilities_found", "api_keys_found", "open_ports"}

C10_FailedDistinctFromCompleted ==
    /\ results.status = "completed" => pc \in {"report", "returned"}
    /\ pc = "returned" => (results.status = "completed" /\ "error" \notin DOMAIN results)
    /\ pc = "returned_failed" =>
          (results.status = "failed" /\ "error" \in DOMAIN results)
    /\ "error" \in DOMAIN results => pc = "returned_failed"

\* A scan has been ended by an exception after its probing phases found nothing:
\* its status is 'failed', not 'completed'.
C10_Witness ==
    /\ pc = "returned_failed"
    /\ results.status = "failed"
    /\ "error" \in DOMAIN results
    /\ net.sent > 0
    /\ results.xss_vulnerabilities = <<>>
    /\ results.sql_injection = <<>>
    /\ results.lfi_vulnerabilities = <<>>

\* C11: an XSS probe, GET or POST, gives a finding exactly when the raw payload
\* occurs in the response body and its HTML-escaped form does not; the finding's
\* risk is High.
C11_XssFindingIffRawAndNotEscaped ==
    probe.kind = "xss" =>
        /\ probe.finding # None <=>
              (/\ Contains(probe.text, probe.payload)
               /\ ~Contains(probe.text, ReplaceChar(ReplaceChar(probe.payload, "<",
                                                         <<"&", "l", "t", ";">>),
                                            ">", <<"&", "g", "t", ";">>)))
        /\ probe.finding # None => probe.finding.risk = "High"

\* The error substrings of a SQLi probe that occur, whatever their case, in the
\* mutated body and not in the baseline body.
NewSqlErrors(p) ==
    {n \in 1..Len(sql_errors) :
        /\ Contains(Lower(p.test.text), sql_errors[n])
        /\ ~Contains(Lower(p.original.text), sql_errors[n])}

C13_TimeFindingIffDeltaOverThreshold ==
    (probe.kind = "sqli" /\ NewSqlErrors(probe) = {}) =>
        /\ (probe.finding # None /\ probe.finding.type = "time_based_sqli")
              <=> probe.test.elapsed - probe.original.elapsed > 5000
        /\ (probe.original.elapsed = 200 /\ probe.test.elapsed = 5400)
              => probe.finding # None
        /\ (probe.original.elapsed = 200 /\ probe.test.elapsed = 900)
              => probe.finding = None
        /\ probe.test.elapsed - probe.original.elapsed = 5000
              => probe.finding = None
        /\ probe.finding # None => probe.finding.risk = "High"

\* Baseline 200 ms, mutated 5400 ms, no error signature: a time-based finding.
C13_Witness ==
    /\ probe.kind = "sqli"
    /\ NewSqlErrors(probe) = {}
    /\ probe.original.elapsed = 200
    /\ probe.test.elapsed = 5400
    /\ probe.finding # None
    /\ probe.finding.type = "time_based_sqli"
    /\ probe.finding.time_difference = 5200

\* C14 as the specification states it: a CORS probe gives a finding exactly when
\* Access-Control-Allow-Origin equals the Origin sent, or is '*' with
\* Access-Control-Allow-Credentials true; the risk is High with credentials allowed
\* and Medium otherwise.
C14_CorsWildcardNeedsCredentials ==
    probe.kind = "cors" =>
        /\ probe.finding # None <=>
              (probe.acao = probe.origin \/ (probe.acao = "*" /\ probe.acac = "true"))
        /\ probe.finding # None =>
              probe.finding.risk = (IF probe.acac = "true" THEN "High" ELSE "Medium")

\* C14 as amended: a CORS probe gives a finding exactly when
\* Access-Control-Allow-Origin equals the Origin sent or is '*', whatever
\* Access-Control-Allow-Credentials is; the risk is High when that header is exactly
\* 'true' and Medium otherwise.
C14_CorsFindingIffEchoOrWildcard ==
    probe.kind = "cors" =>
        /\ probe.finding # None <=> (probe.acao = probe.origin \/ probe.acao = "*")
        /\ probe.finding # None =>
              probe.finding.risk = (IF probe.acac = "true" THEN "High" ELSE "Medium")

\* A wildcard without credentials: a finding of risk Medium.
C14_Witness ==
    /\ probe.kind = "cors"
    /\ probe.acao = "*"
    /\ probe.acac = ""
    /\ probe.finding # None
    /\ probe.finding.risk = "Medium"

\* C15: an LFI probe gives a finding exactly when a signature of lfi_indicators
\* occurs in the response body; its risk is High and its evidence is the first
\* signature, in list order, that occurs.
C15_LfiFindingIffSignature ==
    probe.kind = "lfi" =>
        /\ probe.finding # None <=>
              \E n \in 1..Len(lfi_indicators) : Contains(probe.text, lfi_indicators[n])
        /\ probe.finding # None =>
              /\ probe.finding.risk = "High"
              /\ \E n \in 1..Len(lfi_indicators) :
                    /\ probe.finding.evidence = lfi_indicators[n]
                    /\ Contains(probe.text, lfi_indicators[n])
                    /\ \A m \in 1..(n - 1) : ~Contains(probe.text, lfi_indicators[m])

\* The body holds "bin:" before "root:x:": the evidence is "root:x:", the earlier
\* of the two in lfi_indicators.
C15_Witness ==
    /\ probe.kind = "lfi"
    /\ Contains(probe.text, <<"b", "i", "n", ":">>)
    /\ Contains(probe.text, BodyPasswd)
    /\ probe.finding # None
    /\ probe.finding.evidence = BodyPasswd

\* C16: a header-injection probe gives a finding exactly when the injected value
\* occurs verbatim in the response body; the finding's risk is Medium.
C16_HeaderFindingIffValueInBody ==
    probe.kind = "header" =>
        /\ probe.finding # None <=> Contains(probe.text, probe.value)
        /\ probe.finding # None =>
              /\ probe.finding.risk = "Medium"
              /\ probe.finding.header = probe.header
              /\ probe.finding.payload = probe.value

\* The body holds the injected value of X-Real-IP between other text.
C16_Witness ==
    /\ probe.kind = "header"
    /\ probe.header = "X-Real-IP"
    /\ probe.text # probe.value
    /\ probe.finding # None
    /\ probe.finding.risk = "Medium"

\* C17: the finding list of a phase changes in the scan result only in a step taken
\* when every unit of that phase has been submitted, has finished and has been
\* collected, so no partial list of a phase is ever visible; and once the scan's
\* status is 'completed' no finding list changes any more.
C17_FindingsVisibleOnlyAfterPhase ==
    [][\A e \in Engines :
          /\ results'[ResultKey(e)] # results[ResultKey(e)] =>
                /\ pc \in PoolPcs
                /\ EngineAt(pc) = e
                /\ Len(futures) = UnitCount(e, urls_with_params)
                /\ \A i \in 1..Len(futures) : futures[i].state = "yielded"
          /\ results.status = "completed" =>
                results'[ResultKey(e)] = results[ResultKey(e)]]_vars

\* The XSS phase is over and has made a finding visible; the scan goes on.
C17_Witness ==
    /\ pc = "xss_done"
    /\ results["xss_vulnerabilities"] # <<>>
    /\ results.status \notin {"completed", "interrupted", "failed"}

\* C18: the findings of the scan result only grow: a finding that is in a finding
\* list of the result is, after every step, still in that list or replaced there by
\* a finding with the same deduplication key, also in the steps that end the scan
\* as interrupted or failed.
C18_FindingsOnlyGrow ==
    [][\A e \in Engines :
          \A f \in Range(results[ResultKey(e)]) :
              \/ f \in Range(results'[ResultKey(e)])
              \/ \E g \in Range(results'[ResultKey(e)]) : DedupKey(g) = DedupKey(f)]_vars

\* A scan that failed or was interrupted after a phase had published findings
\* returns them.
C18_Witness ==
    /\ pc \in {"returned_failed", "returned_interrupted"}
    /\ results.status \in {"failed", "interrupted"}
    /\ \E e \in Engines : results[ResultKey(e)] # <<>>

\* C20: no probe unit of the XSS, SQLi or LFI phase is for a discovered URL without
\* '=': the URLs a phase works on, and the URL of every unit submitted, hold a
\* '=', and no probe request is sent in a scan whose corpus has no such URL.
C20_NoUnitForUrlWithoutParameter ==
    /\ \A n \in 1..Len(urls_with_params) : Contains(urls_with_params[n], <<"=">>)
    /\ PoolOpen =>
          \A i \in 1..Len(futures) :
              /\ i <= UnitCount(PoolEngine, urls_with_params)
              /\ Contains(UnitAt(PoolEngine, urls_with_params, i).url, <<"=">>)
    /\ net.sent > 0 =>
          \E n \in 1..Len(results.urls) : Contains(results.urls[n], <<"=">>)

\* The corpus holds a URL without '=' and one with: every unit of the phase has
\* been submitted and one has run, none of them for the URL without '='.
C20_Witness ==
    /\ pc \in PoolPcs
    /\ \E n \in 1..Len(results.urls) : ~Contains(results.urls[n], <<"=">>)
    /\ Len(futures) = UnitCount(PoolEngine, urls_with_params)
    /\ Finished # {}
    /\ net.sent > 0

\* The path and the parameter names of a URL: the URL with every value removed.
\* Two URLs differ only in parameter values exactly when they agree on it.
PointOf(url) == ReSubValues(url, <<>>)

\* The units of the open pool that have been started.
StartedUnits == {i \in 1..Len(futures) : futures[i].state # "pending"}

\* C19 as the specification states it: the URL list a phase hands to its pool has
\* no two entries with the same path and parameters, so no two units started in a
\* phase have the same payload for the same path and parameters.
C19_OneEntryPerPathAndParameter ==
    /\ \A i, j \in 1..Len(urls_with_params) :
          i # j => PointOf(urls_with_params[i]) # PointOf(urls_with_params[j])
    /\ PoolOpen =>
          \A i, j \in StartedUnits :
              i # j =>
                 \/ UnitAt(PoolEngine, urls_with_params, i).payload
                       # UnitAt(PoolEngine, urls_with_params, j).payload
                 \/ PointOf(UnitAt(PoolEngine, urls_with_params, i).url)
                       # PointOf(UnitAt(PoolEngine, urls_with_params, j).url)

\* C19 as amended: the URL list a phase hands to its pool has no two equal URLs,
\* and no two units of a phase have the same URL and the same payload; URLs that
\* differ only in parameter values are all kept, each with its own units.
C19_OneEntryPerUrl ==
    /\ NoDuplicates(results.urls)
    /\ NoDuplicates(urls_with_params)
    /\ PoolOpen =>
          /\ \A i, j \in 1..Len(futures) :
                i # j => UnitAt(PoolEngine, urls_with_params, i)
                            # UnitAt(PoolEngine, urls_with_params, j)
          /\ PoolEngine \in {"xss", "sqli"} =>
                \A n \in 1..Len(results.urls) :
                    Contains(results.urls[n], <<"=">>) =>
                       \E m \in 1..Len(urls_with_params) :
                           urls_with_params[m] = results.urls[n]

\* Two units with the same payload, for two URLs that differ only in the value of
\* their parameter, have both run: the same request was sent twice.
C19_Witness ==
    /\ PoolOpen
    /\ \E i, j \in Finished :
          /\ i # j
          /\ UnitAt(PoolEngine, urls_with_params, i).payload
                = UnitAt(PoolEngine, urls_with_params, j).payload
          /\ UnitAt(PoolEngine, urls_with_params, i).url
                # UnitAt(PoolEngine, urls_with_params, j).url
          /\ ReSubValues(UnitAt(PoolEngine, urls_with_params, i).url,
                         Quote(UnitAt(PoolEngine, urls_with_params, i).payload))
                = ReSubValues(UnitAt(PoolEngine, urls_with_params, j).url,
                              Quote(UnitAt(PoolEngine, urls_with_params, j).payload))

\* The values the parameters of a probe request carry, in the order of the URL's
\* parameters: the query values of a GET as they stand in the URL, the form values
\* of a POST.
RequestValues(req) ==
    IF req.method = "GET"
    THEN [i \in 1..Len(DictOf(QueryPairs(UrlQuery(req.url)))) |->
             DictOf(QueryPairs(UrlQuery(req.url)))[i].value]
    ELSE req.data

\* C21 as the specification states it: the probe request for one parameter of a
\* URL carries the payload (URL-encoded in a GET) as the value of that parameter,
\* and the values of the URL's other parameters unchanged.
C21_PayloadInTargetParameterOnly ==
    probe.kind = "request" =>
        /\ Len(RequestValues(probe.request)) = Len(probe.params)
        /\ \A i \in 1..Len(probe.params) :
              RequestValues(probe.request)[i] =
                 (IF i # probe.slot THEN probe.params[i].value
                  ELSE IF probe.request.method = "GET" THEN Quote(probe.payload)
                  ELSE probe.payload)

\* C21 as amended: a GET probe request carries the URL-encoded payload as the value
\* of every parameter of the URL, under the same path and parameter names; a POST
\* probe request of the XSS unit carries the payload as the value of its target
\* parameter only and the other values unchanged.
C21_GetReplacesEveryValue ==
    probe.kind = "request" =>
        /\ Len(RequestValues(probe.request)) = Len(probe.params)
        /\ UrlBase(probe.request.url) = UrlBase(probe.url)
        /\ probe.request.method = "GET" =>
              \A i \in 1..Len(probe.params) :
                  /\ RequestValues(probe.request)[i] = Quote(probe.payload)
                  /\ DictOf(QueryPairs(UrlQuery(probe.request.url)))[i].name
                        = probe.params[i].name
        /\ probe.request.method = "POST" =>
              \A i \in 1..Len(probe.params) :
                  RequestValues(probe.request)[i] =
                     (IF i = probe.slot THEN probe.payload ELSE probe.params[i].value)

\* The GET request for a URL with two parameters: both values are the payload.
C21_Witness ==
    /\ probe.kind = "request"
    /\ probe.request.method = "GET"
    /\ Len(probe.params) = 2
    /\ probe.params[1].value # probe.params[2].value
    /\ RequestValues(probe.request)[1] = Quote(probe.payload)
    /\ RequestValues(probe.request)[2] = Quote(probe.payload)

\* The maximum of payloads per URL a phase names: 5 for XSS, 4 for SQLi.  The LFI
\* loop names none; the claim is tried with the largest one of the code.
PayloadBound(e) ==
    CASE e = "xss" -> XSS_PAYLOAD_LIMIT
      [] e = "sqli" -> SQLI_PAYLOAD_LIMIT
      [] OTHER -> XSS_PAYLOAD_LIMIT

\* C22 as the specification states it: in every category the payloads tried on a
\* URL never exceed the maximum per point, the units of a phase are at most
\* (URLs admitted) x (that maximum), and fewer payloads than the catalog holds are
\* tried whenever the catalog is larger than the maximum.
C22_PayloadsPerPointBounded ==
    probe.kind = "matrix" =>
        /\ probe.tried <= PayloadBound(probe.engine)
        /\ probe.units <= probe.admitted * PayloadBound(probe.engine)
        /\ probe.catalog > PayloadBound(probe.engine) => probe.tried < probe.catalog

\* C22 as amended: the XSS phase tries at most 5 payloads on a URL and the SQLi
\* phase at most 4, fewer than the catalog holds whenever it holds more; the LFI
\* phase has no maximum and tries every payload of its catalog; the units of a
\* phase are (URLs admitted) x (payloads tried on a URL).
C22_OnlyXssAndSqliBounded ==
    probe.kind = "matrix" =>
        /\ probe.units = probe.admitted * probe.tried
        /\ probe.engine = "xss" => probe.tried = Min(probe.catalog, 5)
        /\ probe.engine = "sqli" => probe.tried = Min(probe.catalog, 4)
        /\ probe.engine = "lfi" => probe.tried = probe.catalog
        /\ probe.engine \in {"xss", "sqli"} =>
              /\ probe.tried <= PayloadBound(probe.engine)
              /\ probe.catalog > PayloadBound(probe.engine)
                    => probe.tried < probe.catalog

\* A catalog of 7 payloads and 2 URLs: the XSS phase has 10 units.
C22_Witness ==
    /\ probe.kind = "matrix"
    /\ probe.engine = "xss"
    /\ probe.catalog = 7
    /\ probe.admitted = 2
    /\ probe.tried = 5
    /\ probe.units = 10

\* Whether the i-th unit of the open pool meets a request that gets no answer
\* before its timeout.
TimesOut(i) ==
    IF PoolEngine = "sqli"
    THEN \E n \in 1..Len(SqliRequests) :
            SqliTable[target][UnitOf(i).url][
                PayloadIndex("sqli", UnitOf(i).payload)].raises[n]
    ELSE RunUnitTable[PoolEngine][target][UnitOf(i).url][
             PayloadIndex(PoolEngine, UnitOf(i).payload)].failed > 0

\* Every unit submitted to the open pool has run to its end, and the main thread
\* has submitted every unit of the phase unless an exception took it out of the
\* loop.
PoolDrained ==
    /\ PoolOpen
    /\ pc \in PoolPcs => Len(futures) = UnitCount(PoolEngine, urls_with_params)
    /\ \A i \in 1..Len(futures) : i \in Finished

\* C23: with a unit blocked on a target until the timeout of its request, every
\* unit submitted to a pool is eventually run to its end, the blocked one
\* included, and the phase ends.
C23_SlowUnitDoesNotStallPool ==
    \A e \in Engines :
        /\ (PoolOpen /\ PoolEngine = e) ~> (PoolDrained /\ PoolEngine = e)
        /\ (PoolOpen /\ PoolEngine = e) ~> ~(PoolOpen /\ PoolEngine = e)

\* A unit that meets a timeout is still running, every thread of the pool is busy
\* or has been, and a unit submitted after it has already run to its end.
C23_Witness ==
    /\ pc \in PoolPcs
    /\ \E i \in Running :
          /\ TimesOut(i)
          /\ \E j \in Finished : j > i /\ ~TimesOut(j)
    /\ Pending # {}

\* C24: the set of findings a phase publishes is the same in every run on the
\* same URL list, catalog and server, whatever the order in which the workers end:
\* it is the set of the findings the units return, which the URL list, the
\* catalog and the server determine.
C24_FindingSetSameForEveryInterleaving ==
    \A e \in Engines :
        pc \in PhaseOver(e) => Range(Published(e)) = Range(Returns(e)) \ {None}

\* The XSS phase has published two findings in another order than their units were
\* submitted in.
C24_Witness ==
    /\ pc = "xss_done"
    /\ Len(Published("xss")) = 2
    /\ Published("xss") # SelectSeq(Returns("xss"), LAMBDA f : f # None)
    /\ Range(Published("xss")) = Range(Returns("xss")) \ {None}

\* A pool thread takes a step: a unit starts, or a unit that runs goes on or ends.
PoolThreadStep ==
    \E i \in DOMAIN futures \cap DOMAIN futures' :
        /\ futures[i].state \in {"pending", "running"}
        /\ futures'[i] # futures[i]

\* The main thread takes the result of one unit that has ended and, if it is a
\* finding, appends it to the phase's list.
MainThreadCollectsOne ==
    \E i \in DOMAIN futures :
        /\ futures[i].state = "done"
        /\ futures' = [futures EXCEPT ![i].state = "yielded"]
        /\ local' = IF futures[i].result # None
                    THEN Append(local, futures[i].result)
                    ELSE local

\* The SQLi units of this scan whose mutated response both shows a new error
\* signature and is slower than the baseline by more than the threshold.
ErrorAndSlowUnits ==
    {n \in DOMAIN PhaseUnits("sqli") :
        LET u == PhaseUnits("sqli")[n]
            original == Respond(target, GetRequest(u.url))
            test == Respond(target, GetRequest(ReSubValues(u.url, Quote(u.payload))))
        IN  /\ ~original.err /\ ~test.err
            /\ NewSqlErrors([original |-> original, test |-> test]) # {}
            /\ test.elapsed - original.elapsed > 5000}

\* C25: the steps of the pool threads leave the phase's finding list alone, and
\* the list changes inside a pool only by the main thread appending the finding of
\* one ended unit; the list a phase publishes has as many entries as units
\* returned a finding, and a SQLi unit that meets both an error signature and a
\* delay is in it once, as an error-signature finding.
C25_OnlyMainThreadAppends ==
    /\ [][/\ PoolThreadStep => local' = local
          /\ (PoolOpen /\ local' # local /\ local' # <<>>) => MainThreadCollectsOne]_vars
    /\ [](\A e \in Engines :
            pc \in PhaseOver(e) =>
               Len(Published(e)) =
                  Cardinality({n \in DOMAIN Returns(e) : Returns(e)[n] # None}))
    /\ [](pc \in PhaseOver("sqli") =>
            \A n \in ErrorAndSlowUnits :
                LET u == PhaseUnits("sqli")[n]
                    mine == {m \in DOMAIN Published("sqli") :
                               /\ "payload" \in DOMAIN Published("sqli")[m]
                               /\ Published("sqli")[m].payload = u.payload
                               /\ Published("sqli")[m].url
                                     = ReSubValues(u.url, Quote(u.payload))}
                IN  /\ Cardinality(mine) = 1
                    /\ \A m \in mine : Published("sqli")[m].type = "error_based_sqli")

\* The SQLi phase has published its list, with the finding of a unit whose
\* mutated response showed an error signature and was slow.
C25_Witness ==
    /\ pc = "sqli_done"
    /\ ErrorAndSlowUnits # {}
    /\ Len(Published("sqli")) >= 2

\* The findings the loop of manual_cors_testing collects in this scan when it runs
\* to its end.
CorsReturns ==
    LET pairs == CorsPairs(results.live_subdomains)
        values == [k \in DOMAIN pairs |->
                     IF CorsHeaders(target, pairs[k].origin).err THEN None
                     ELSE CorsClassify(pairs[k].url, pairs[k].origin,
                                       CorsHeaders(target, pairs[k].origin).acao,
                                       CorsHeaders(target, pairs[k].origin).acac)]
    IN  SelectSeq(values, LAMBDA f : f # None)

\* C26: in every state, also after a scan that ended interrupted or failed, each
\* of the lists xss_vulnerabilities, sql_injection, lfi_vulnerabilities and
\* cors_issues of the result is either empty, as __init__ left it, or the complete
\* list of its phase, which has then ended: it never holds a part of the phase's
\* findings.
C26_ListsPublishedWhole ==
    /\ \A e \in Engines :
          Published(e) # <<>> =>
             /\ pc \in PhaseOver(e) \cup {"returned_interrupted", "returned_failed",
                                         "shutdown_wait"}
             /\ Len(Published(e)) =
                   Cardinality({n \in DOMAIN Returns(e) : Returns(e)[n] # None})
             /\ Range(Published(e)) = Range(Returns(e)) \ {None}
    /\ results.cors_issues # <<>> =>
          /\ pc \in {"cors_done", "phases_done", "report", "returned",
                     "returned_interrupted", "returned_failed"}
          /\ results.cors_issues = CorsReturns

\* A scan interrupted in the loop of manual_cors_testing, after it had collected a
\* part of the CORS findings: the result has no CORS finding, and the complete
\* list of the XSS phase.
C26_Witness ==
    /\ pc = "returned_interrupted"
    /\ local # <<>>
    /\ Len(local) < Len(CorsReturns)
    /\ results.cors_issues = <<>>
    /\ results.xss_vulnerabilities # <<>>

\* C27: the status changes only to the next status of StatusOrder, or from a
\* status that is not final to 'interrupted' or 'failed'; 'completed',
\* 'interrupted' and 'failed' are never left.
C27_StatusOnlyMovesForward ==
    [][results'.status # results.status =>
          /\ results.status \notin FinalStatuses
          /\ \/ results'.status \in {"interrupted", "failed"}
             \/ \E n \in 1..(Len(StatusOrder) - 1) :
                   /\ results.status = StatusOrder[n]
                   /\ results'.status = StatusOrder[n + 1]]_vars

\* C29: calculate_progress answers a percentage between 0 and 100 for every scan
\* status, answers 100 exactly when the status is 'completed', and answers no
\* less for a later status of StatusOrder than for an earlier one.
C29_ProgressIsPercentage ==
    (probe.kind = "progress" /\ "status" \in DOMAIN probe.results) =>
        /\ probe.progress \in 0..100
        /\ probe.progress = 100 <=> probe.results.status = "completed"
        /\ \A n, m \in DOMAIN StatusOrder :
              (n < m /\ probe.results.status = StatusOrder[n]) =>
                  probe.progress <= calculate_progress([status |-> StatusOrder[m]])

\* A URL the claim lets the LFI phase probe: it holds '=' and, in any case and at
\* any place, one of the keywords.
LfiCandidate(u) ==
    /\ \E i \in DOMAIN u : u[i] = "="
    /\ \E n \in DOMAIN lfi_keywords, i \in 0..Len(u) :
          /\ i + Len(lfi_keywords[n]) <= Len(u)
          /\ \A j \in DOMAIN lfi_keywords[n] : LowerChar(u[i + j]) = lfi_keywords[n][j]

\* C30: every URL the LFI loop probes holds '=' and a keyword; the URLs it probes
\* are the first LFI_URL_LIMIT such URLs of the corpus, in the order of the
\* corpus, so that no other URL gets an LFI unit and there are at most
\* LFI_URL_LIMIT times the catalog's length units.
C30_LfiOnlyFirstThirtyCandidates ==
    probe.kind = "lfi_urls" =>
        LET candidates == {i \in DOMAIN probe.urls : LfiCandidate(probe.urls[i])}
        IN  /\ \A i \in DOMAIN probe.probed : LfiCandidate(probe.probed[i])
            /\ Len(probe.probed) = Min(Cardinality(candidates), LFI_URL_LIMIT)
            /\ \A i \in DOMAIN probe.probed :
                  \E j \in candidates :
                      /\ probe.urls[j] = probe.probed[i]
                      /\ Cardinality({k \in candidates : k < j}) = i - 1
            /\ probe.units = Len(probe.probed) * Len(lfi_payloads)

\* A corpus with more than LFI_URL_LIMIT candidates, among them the URL with the
\* keyword in upper case in its path: the slice leaves one candidate out.
C30_Witness ==
    /\ probe.kind = "lfi_urls"
    /\ Len(probe.with_params) > LFI_URL_LIMIT
    /\ Len(probe.probed) = LFI_URL_LIMIT
    /\ \E i \in DOMAIN probe.probed : probe.probed[i] = UrlFilePath
    /\ \E i \in DOMAIN probe.urls :
          LfiCandidate(probe.urls[i]) /\ \A j \in DOMAIN probe.probed : probe.probed[j] # probe.urls[i]

\* The scan started last is under way: started, and not yet in active_scans.
ScanUnderWay ==
    /\ probe.scan_id > 0
    /\ probe.scan_id \notin DOMAIN probe.active_scans

\* C28: a scan_id enters active_scans only once its run_full_scan has returned,
\* with the result it returned; a scan_status or scan_results request for a scan
\* that is under way is answered 'Scan not found'; and every status scan_status
\* reports is 'completed', 'interrupted' or 'failed'.
C28_ScanVisibleOnlyWhenOver ==
    /\ [][/\ \A id \in DOMAIN probe'.active_scans \ DOMAIN probe.active_scans :
                /\ id = probe.scan_id
                /\ pc \in Returned
                /\ probe'.active_scans[id] = results
          /\ \A id \in DOMAIN probe.active_scans :
                /\ id \in DOMAIN probe'.active_scans
                /\ probe'.active_scans[id] = probe.active_scans[id]
          /\ (/\ ScanUnderWay
              /\ probe'.reply # probe.reply
              /\ probe'.reply.route \in {"scan_status", "scan_results"}
              /\ probe'.reply.scan_id = probe.scan_id)
                 => probe'.reply = NotFound(probe'.reply.route, probe.scan_id)]_vars
    /\ [](probe.reply.route = "scan_status" /\ probe.reply.code = 200
             => probe.reply.status \in FinalStatuses)

\* The first scan has failed and scan_status has reported that, and a request
\* for the second scan, which is in its LFI pool, has been answered 'Scan not
\* found'.
C28_Witness ==
    /\ probe.kind = "web"
    /\ probe.scan_id = 2
    /\ pc = "lfi_pool"
    /\ 1 \in DOMAIN probe.active_scans
    /\ probe.active_scans[1].status = "failed"
    /\ probe.reply = NotFound("scan_status", 2)

====
